---- MODULE Spec2Model ----
(***************************************************************************)
(* State-machine model of SLADE's 2D map renderer (MapRenderer2D): the     *)
(* cached vertex / line / thing / flat buffers and their staleness checks, *)
(* the sector visibility table, and the thing path builder.                *)
(*                                                                         *)
(* The map (SLADEMap), the application clock (app::runTimer) and the game  *)
(* configuration are collaborators of the renderer; their behaviour is     *)
(* modelled from the description of the map model in the specification.    *)
(***************************************************************************)
EXTENDS Integers, Sequences, FiniteSets, TLC

VARIABLES
    clock,                \* app::runTimer(): elapsed milliseconds
    vertices,             \* map_->vertices(): sequence of [mt]
    lines,                \* map_->lines():    sequence of [mt]
    things,               \* map_->things():   sequence of [type, id, args, mt]
    sectors,              \* map_->sectors():  sequence of [bbox, mt, tex, vbo]
    geometry_updated,     \* map_->geometryUpdated()
    things_updated,       \* map_->thingsUpdated()
    view_scale,           \* view_->scale().x, a fraction [num, den]
    fit,                  \* the view's size and offset, and the frame of View::fitTo
    vertices_buffer_,     \* unique_ptr<gl::PointSpriteBuffer>
    n_vertices_,
    vertices_updated_,
    lines_buffer_,        \* unique_ptr<gl::LineBuffer>
    lines_dirs_,
    n_lines_,
    lines_updated_,
    thing_buffers_,       \* vector<unique_ptr<gl::ThingBuffer2D>>
    things_updated_,
    things_angles_,
    flats_buffer_,        \* unique_ptr<gl::VertexBuffer2D>
    flats_updated_,
    tex_flats_,           \* vector<unsigned>
    last_flat_type_,
    vis_s_,               \* vector<uint8_t>
    thing_paths_,         \* vector<ThingPath>
    thing_paths_updated_,
    candidates,           \* the [things] argument of updateThingPaths (indices into things)
    walk,                 \* position of a running updateThingPaths in its loops
    temp_lines_buffer_,   \* unique_ptr<gl::LineBuffer>
    thing_overlay_buffer_, \* unique_ptr<gl::PointSpriteBuffer>
    temp_things_buffer_,  \* unique_ptr<gl::ThingBuffer2D>
    dc,                   \* the gl::draw2d::Context the canvas hands to the render calls
    last                  \* the operation just performed and what it did

mapVars   == <<vertices, lines, things, sectors, geometry_updated, things_updated>>
vertVars  == <<vertices_buffer_, n_vertices_, vertices_updated_>>
lineVars  == <<lines_buffer_, lines_dirs_, n_lines_, lines_updated_>>
thingVars == <<thing_buffers_, things_updated_, things_angles_>>
flatVars  == <<flats_buffer_, flats_updated_, tex_flats_, last_flat_type_>>
pathVars  == <<thing_paths_, thing_paths_updated_, walk>>
overlayVars == <<temp_lines_buffer_, thing_overlay_buffer_, temp_things_buffer_>>
cacheVars == <<vertVars, lineVars, thingVars, flatVars, vis_s_, pathVars>>
vars      == <<clock, mapVars, view_scale, fit, cacheVars, candidates, overlayVars, dc, last>>

-----------------------------------------------------------------------------
(* Bounds of the model *)

MaxClock    == 2      \* largest value the clock reaches
MaxVertices == 2      \* largest number of vertices of the map
MaxLines    == 1      \* largest number of lines of the map
MaxThings   == 1      \* largest number of things of the map
MaxSectors  == 1      \* largest number of sectors of the map
MaxTypes    == 1      \* thing types 1..MaxTypes used by the cache model
MaxThingKinds  == 2   \* thing types 1..MaxThingKinds of the maps of typed things
MaxTypedThings == 3   \* largest number of things of those maps

(* Program constants *)

AlphaMin  == 1        \* 0.01f, with alpha counted in hundredths
VIS_LEFT  == 1
VIS_RIGHT == 2
VIS_ABOVE == 3
VIS_BELOW == 4
VIS_SMALL == 5
MinSectorPixels == 4  \* sectors narrower than this on screen are not worth drawing
FlatTexGrace    == 100  \* a sector modified less than this before the flats build is re-textured
MaxVBOUpdates   == 200  \* polygon buffer updates done by one renderFlats call

Alphas == {AlphaMin, 100}               \* 0.01, 1.0
Times  == 0..MaxClock

Max(a, b) == IF a > b THEN a ELSE b
Range(s)  == {s[i] : i \in 1..Len(s)}
RemoveAt(s, i) == [k \in 1..(Len(s) - 1) |-> IF k < i THEN s[k] ELSE s[k + 1]]

nVertices == Len(vertices)
nLines    == Len(lines)
nThings   == Len(things)
nSectors  == Len(sectors)

-----------------------------------------------------------------------------
(* gl buffers: a CPU staging list and the uploaded contents *)

NoBuffer    == [present |-> FALSE, staged |-> <<>>, uploaded |-> <<>>]
EmptyBuffer == [present |-> TRUE, staged |-> <<>>, uploaded |-> <<>>]

\* gl::getContext(): the render operations run in the canvas' draw callback,
\* with the OpenGL context current
getContext == TRUE

\* LineBuffer::add (and the add of the other buffer kinds)
BufferAdd(buf, entry) == [buf EXCEPT !.staged = Append(@, entry)]

RECURSIVE BufferAddAll(_, _)
BufferAddAll(buf, entries) ==
    IF entries = <<>> THEN buf
    ELSE BufferAddAll(BufferAdd(buf, Head(entries)), Tail(entries))

\* (variant: the staged batch is added to what was uploaded before)
BufferPush_Appending(buf) ==
    IF ~getContext THEN buf
    ELSE [buf EXCEPT !.uploaded = @ \o buf.staged, !.staged = <<>>]

\* (variant: the staging list is kept after the upload)
BufferPush_KeepStaged(buf) ==
    IF ~getContext THEN buf
    ELSE [buf EXCEPT !.uploaded = buf.staged]

\* LineBuffer::push: upload the staged batch and clear the staging list
BufferPush(buf) ==
    IF ~getContext THEN buf
    ELSE [buf EXCEPT !.uploaded = buf.staged, !.staged = <<>>]

\* LineBuffer::draw: what the draw call puts on screen
BufferDraw(buf) == IF ~getContext THEN <<>> ELSE buf.uploaded

-----------------------------------------------------------------------------
(* The draw context: the fields the render calls assign. The style a call   *)
(* sets on a buffer right before drawing it (colour, radius, width) is part *)
(* of that draw, not of the state. A colour is the name of a colour of the  *)
(* configuration with the fade applied to it, a line thickness an           *)
(* expression with the fade applied to it, both fades in hundredths.        *)

NewContext ==
    [colour |-> <<"none", 100>>, texture |-> "none", pointsprite_type |-> "none",
     pointsprite_radius |-> "none", line_thickness |-> <<"none", 100>>,
     line_arrow_length |-> "none"]

\* the constructor's temporary buffers, and a context no render call has used
FreshOverlay ==
    /\ temp_lines_buffer_ = EmptyBuffer
    /\ thing_overlay_buffer_ = EmptyBuffer
    /\ temp_things_buffer_ = EmptyBuffer
    /\ dc = NewContext

-----------------------------------------------------------------------------
(* The record of the operation just performed *)

Op(name, alpha, flag, rebuilt, draws) ==
    [op |-> name, alpha |-> alpha, flag |-> flag, view |-> <<>>, rebuilt |-> rebuilt,
     draws |-> draws, faults |-> {}]

MapOp(name) == Op(name, 0, FALSE, {}, {})

-----------------------------------------------------------------------------
(* The map model: every mutation stamps the feature with the clock; adding, *)
(* removing or moving geometry stamps the map's geometry counter, and any   *)
(* change to the things stamps the map's things counter.                    *)

NewVertex == [mt |-> clock]
NewLine   == [mt |-> clock]
NewThing(type) == [type |-> type, id |-> 0, args |-> <<0, 0, 0, 0, 0>>, mt |-> clock]

Tick ==
    /\ clock < MaxClock
    /\ clock' = clock + 1
    /\ UNCHANGED <<mapVars, view_scale, fit, cacheVars, candidates, overlayVars, dc, last>>

AddVertex ==
    /\ nVertices < MaxVertices
    /\ vertices' = Append(vertices, NewVertex)
    /\ geometry_updated' = clock
    /\ last' = MapOp("addVertex")
    /\ UNCHANGED <<clock, lines, things, sectors, things_updated, view_scale, fit, cacheVars, candidates, overlayVars, dc>>

RemoveVertex ==
    /\ \E i \in 1..nVertices : vertices' = RemoveAt(vertices, i)
    /\ geometry_updated' = clock
    /\ last' = MapOp("removeVertex")
    /\ UNCHANGED <<clock, lines, things, sectors, things_updated, view_scale, fit, cacheVars, candidates, overlayVars, dc>>

\* MapVertex::move: a change of the structural geometry
MoveVertex ==
    /\ \E i \in 1..nVertices :
          vertices' = [vertices EXCEPT ![i].mt = clock]
    /\ geometry_updated' = clock
    /\ last' = MapOp("moveVertex")
    /\ UNCHANGED <<clock, lines, things, sectors, things_updated, view_scale, fit, cacheVars, candidates, overlayVars, dc>>

\* a property change of a vertex that is no change of the geometry
ModifyVertex ==
    /\ \E i \in 1..nVertices : vertices' = [vertices EXCEPT ![i].mt = clock]
    /\ last' = MapOp("modifyVertex")
    /\ UNCHANGED <<clock, lines, things, sectors, geometry_updated, things_updated,
                   view_scale, fit, cacheVars, candidates, overlayVars, dc>>

AddLine ==
    /\ nLines < MaxLines
    /\ lines' = Append(lines, NewLine)
    /\ geometry_updated' = clock
    /\ last' = MapOp("addLine")
    /\ UNCHANGED <<clock, vertices, things, sectors, things_updated, view_scale, fit, cacheVars, candidates, overlayVars, dc>>

RemoveLine ==
    /\ \E i \in 1..nLines : lines' = RemoveAt(lines, i)
    /\ geometry_updated' = clock
    /\ last' = MapOp("removeLine")
    /\ UNCHANGED <<clock, vertices, things, sectors, things_updated, view_scale, fit, cacheVars, candidates, overlayVars, dc>>

\* a property change of a line (its special, its sides): changes its colour
ModifyLine ==
    /\ \E i \in 1..nLines :
          lines' = [lines EXCEPT ![i].mt = clock]
    /\ last' = MapOp("modifyLine")
    /\ UNCHANGED <<clock, vertices, things, sectors, geometry_updated, things_updated,
                   view_scale, fit, cacheVars, candidates, overlayVars, dc>>

AddThing ==
    /\ nThings < MaxThings
    /\ \E type \in 1..MaxTypes : things' = Append(things, NewThing(type))
    /\ things_updated' = clock
    /\ last' = MapOp("addThing")
    /\ UNCHANGED <<clock, vertices, lines, sectors, geometry_updated, view_scale, fit, cacheVars, candidates, overlayVars, dc>>

RemoveThing ==
    /\ \E i \in 1..nThings : things' = RemoveAt(things, i)
    /\ things_updated' = clock
    /\ last' = MapOp("removeThing")
    /\ UNCHANGED <<clock, vertices, lines, sectors, geometry_updated, view_scale, fit, cacheVars, candidates, overlayVars, dc>>

\* a change of a thing (position, angle, type, arguments)
ModifyThing ==
    /\ \E i \in 1..nThings :
          things' = [things EXCEPT ![i].mt = clock]
    /\ things_updated' = clock
    /\ last' = MapOp("modifyThing")
    /\ UNCHANGED <<clock, vertices, lines, sectors, geometry_updated, view_scale, fit, cacheVars, candidates, overlayVars, dc>>

\* a change of the type of a thing
SetThingType ==
    /\ \E i \in 1..nThings, type \in 1..MaxThingKinds :
          /\ things[i].type # type
          /\ things' = [things EXCEPT ![i].type = type, ![i].mt = clock]
    /\ things_updated' = clock
    /\ last' = MapOp("setThingType")
    /\ UNCHANGED <<clock, vertices, lines, sectors, geometry_updated, view_scale, fit, cacheVars, candidates, overlayVars, dc>>

-----------------------------------------------------------------------------
(* Vertices *)

\* one point sprite per vertex
VertexEntries(vs) == [i \in 1..Len(vs) |-> [vertex |-> i]]

\* MapRenderer2D::updateVerticesBuffer
updateVerticesBuffer(buf, vs, now) ==
    LET b0 == IF ~buf.present THEN EmptyBuffer ELSE buf
    IN  [buf     |-> BufferPush(BufferAddAll(b0, VertexEntries(vs))),
         n       |-> Len(vs),
         updated |-> now]

\* (variant: the geometry counter is not compared)
VerticesStale_NoGeometry ==
    \/ ~vertices_buffer_.present
    \/ nVertices # n_vertices_

\* (variant: a cache as new as the geometry counts as stale)
VerticesStale_Inclusive ==
    \/ ~vertices_buffer_.present
    \/ nVertices # n_vertices_
    \/ geometry_updated >= vertices_updated_

\* the condition of the "update vertices buffer if required" test
VerticesStale ==
    \/ ~vertices_buffer_.present
    \/ nVertices # n_vertices_
    \/ geometry_updated > vertices_updated_

\* (variant: an empty map is not rejected)
VerticesRejected_NoCount(alpha) == alpha <= AlphaMin

\* renderVertices: "check there are any vertices to render", "don't bother if
\* (practically) invisible"
VerticesRejected(alpha) == nVertices = 0 \/ alpha <= AlphaMin

\* MapRenderer2D::renderVertices
renderVertices ==
    \E alpha \in Alphas :
       /\ IF VerticesRejected(alpha)
            THEN /\ UNCHANGED vertVars
                 /\ last' = Op("renderVertices", alpha, FALSE, {}, {})
            ELSE LET c == IF VerticesStale
                            THEN updateVerticesBuffer(vertices_buffer_, vertices, clock)
                            ELSE [buf |-> vertices_buffer_, n |-> n_vertices_,
                                  updated |-> vertices_updated_]
                 IN  /\ vertices_buffer_'  = c.buf
                     /\ n_vertices_'       = c.n
                     /\ vertices_updated_' = c.updated
                     /\ last' = Op("renderVertices", alpha, FALSE,
                                   IF VerticesStale THEN {"vertices"} ELSE {},
                                   {<<"vertices", 0>>})
       /\ UNCHANGED <<clock, mapVars, view_scale, fit, lineVars, thingVars, flatVars, vis_s_,
                      pathVars, candidates, overlayVars, dc>>

-----------------------------------------------------------------------------
(* Lines *)

\* one entry per line, and one more for its direction tab if shown
RECURSIVE LineEntries(_, _)
LineEntries(ls, show_direction) ==
    IF ls = <<>> THEN <<>>
    ELSE (IF show_direction
            THEN <<[tab |-> FALSE], [tab |-> TRUE]>>
            ELSE <<[tab |-> FALSE]>>)
         \o LineEntries(Tail(ls), show_direction)

\* MapRenderer2D::updateLinesBuffer
updateLinesBuffer(buf, ls, show_direction, now) ==
    LET b0 == IF ~buf.present THEN EmptyBuffer ELSE buf
    IN  [buf     |-> BufferPush(BufferAddAll(b0, LineEntries(ls, show_direction))),
         dirs    |-> show_direction,
         n       |-> Len(ls),
         updated |-> now]

\* MapObjectCollection::modifiedSince(since, type)
modifiedSince(objects, since) == \E i \in 1..Len(objects) : objects[i].mt > since

\* (variant: the lines' modification times are not looked at)
LinesStale_NoModifiedSince(show_direction) ==
    \/ ~lines_buffer_.present
    \/ lines_buffer_.uploaded = <<>>
    \/ show_direction # lines_dirs_
    \/ nLines # n_lines_
    \/ geometry_updated > lines_updated_

\* the condition of the "update lines buffer if needed" test
LinesStale(show_direction) ==
    \/ ~lines_buffer_.present
    \/ lines_buffer_.uploaded = <<>>
    \/ show_direction # lines_dirs_
    \/ nLines # n_lines_
    \/ geometry_updated > lines_updated_
    \/ modifiedSince(lines, lines_updated_)

\* renderLines: "check there are any lines to render", "don't bother if
\* (practically) invisible"
LinesRejected(alpha) == nLines = 0 \/ alpha <= AlphaMin

\* MapRenderer2D::renderLines
renderLines ==
    \E alpha \in Alphas, show_direction \in BOOLEAN :
       /\ IF LinesRejected(alpha)
            THEN /\ UNCHANGED lineVars
                 /\ last' = Op("renderLines", alpha, show_direction, {}, {})
            ELSE LET c == IF LinesStale(show_direction)
                            THEN updateLinesBuffer(lines_buffer_, lines, show_direction, clock)
                            ELSE [buf |-> lines_buffer_, dirs |-> lines_dirs_, n |-> n_lines_,
                                  updated |-> lines_updated_]
                 IN  /\ lines_buffer_'  = c.buf
                     /\ lines_dirs_'    = c.dirs
                     /\ n_lines_'       = c.n
                     /\ lines_updated_' = c.updated
                     /\ last' = Op("renderLines", alpha, show_direction,
                                   IF LinesStale(show_direction) THEN {"lines"} ELSE {},
                                   {<<"lines", 0>>})
       /\ UNCHANGED <<clock, mapVars, view_scale, fit, vertVars, thingVars, flatVars, vis_s_,
                      pathVars, candidates, overlayVars, dc>>

-----------------------------------------------------------------------------
(* Things *)

ThingEntry(t) == [type |-> t.type]

\* (variant: no sub-buffer is ever found for a type)
BufferOfType_NotFound(bufs, type) == 0

\* index of the sub-buffer created for [type], 0 if there is none yet
BufferOfType(bufs, type) ==
    IF \E k \in 1..Len(bufs) : bufs[k].type = type
      THEN CHOOSE k \in 1..Len(bufs) : bufs[k].type = type
      ELSE 0

\* the loop of updateThingBuffers: create a buffer for a thing type when needed,
\* add the thing to the buffer of its type
RECURSIVE FillThingBuffers(_, _)
FillThingBuffers(bufs, ts) ==
    IF ts = <<>> THEN bufs
    ELSE LET thing == Head(ts)
             k0    == BufferOfType(bufs, thing.type)
             bufs1 == IF k0 = 0
                        THEN Append(bufs, [type |-> thing.type, staged |-> <<>>, uploaded |-> <<>>])
                        ELSE bufs
             k     == IF k0 = 0 THEN Len(bufs1) ELSE k0
         IN  FillThingBuffers([bufs1 EXCEPT ![k] = BufferAdd(@, ThingEntry(thing))], Tail(ts))

\* MapRenderer2D::updateThingBuffers
updateThingBuffers(ts, now) ==
    LET filled == FillThingBuffers(<<>>, ts)
    IN  [bufs    |-> [k \in 1..Len(filled) |-> BufferPush(filled[k])],
         updated |-> now]

\* the condition of the rebuild test of renderThings
ThingsStale ==
    \/ thing_buffers_ = <<>>
    \/ things_updated > things_updated_

\* (variant: the boundary value itself is not rejected)
ThingsRejected_Strict(alpha) == alpha < AlphaMin \/ nThings = 0

\* renderThings: "don't bother if (practically) invisible"
ThingsRejected(alpha) == alpha <= AlphaMin \/ nThings = 0

\* MapRenderer2D::renderThings(alpha, force_dir)
renderThings ==
    \E alpha \in Alphas, force_dir \in BOOLEAN :
       /\ IF ThingsRejected(alpha)
            THEN /\ UNCHANGED thingVars
                 /\ last' = Op("renderThings", alpha, force_dir, {}, {})
            ELSE LET c == IF ThingsStale
                            THEN updateThingBuffers(things, clock)
                            ELSE [bufs |-> thing_buffers_, updated |-> things_updated_]
                 IN  /\ things_angles_'  = force_dir
                     /\ thing_buffers_'  = c.bufs
                     /\ things_updated_' = c.updated
                     /\ last' = Op("renderThings", alpha, force_dir,
                                   IF ThingsStale THEN {"things"} ELSE {},
                                   {<<"things", k>> : k \in 1..Len(c.bufs)})
       /\ UNCHANGED <<clock, mapVars, view_scale, fit, vertVars, lineVars, flatVars, vis_s_,
                      pathVars, candidates, overlayVars, dc>>

-----------------------------------------------------------------------------
(* Sectors: bounding box, modification time, and the state of the sector's *)
(* polygon (the texture set on it, and its pending vertex-buffer update)   *)

Intervals == {<<0, 2>>, <<0, 8>>, <<12, 18>>, <<22, 30>>}
Boxes     == {[minx |-> ix[1], maxx |-> ix[2], miny |-> iy[1], maxy |-> iy[2]] :
                 ix \in Intervals, iy \in Intervals}
DefaultBox == [minx |-> 12, maxx |-> 18, miny |-> 12, maxy |-> 18]

\* the viewports passed to updateVisibility: <<top left, bottom right>>
Views  == {<<[x |-> 10, y |-> 10], [x |-> 20, y |-> 20]>>,
           <<[x |-> 0, y |-> 0], [x |-> 30, y |-> 30]>>,
           <<[x |-> 19, y |-> 0], [x |-> 30, y |-> 11]>>}
\* zoom 0.5, 1.0, 2.0
Scales == {[num |-> 1, den |-> 2], [num |-> 1, den |-> 1], [num |-> 2, den |-> 1]}

NewSector == [bbox |-> DefaultBox, mt |-> clock, ptex |-> 0, vbo |-> 2]

AddSector ==
    /\ nSectors < MaxSectors
    /\ sectors' = Append(sectors, NewSector)
    /\ geometry_updated' = clock
    /\ last' = MapOp("addSector")
    /\ UNCHANGED <<clock, vertices, lines, things, things_updated, view_scale, fit, cacheVars, candidates, overlayVars, dc>>

RemoveSector ==
    /\ \E i \in 1..nSectors : sectors' = RemoveAt(sectors, i)
    /\ geometry_updated' = clock
    /\ last' = MapOp("removeSector")
    /\ UNCHANGED <<clock, vertices, lines, things, things_updated, view_scale, fit, cacheVars, candidates, overlayVars, dc>>

\* the sector's outline changes: new bounding box, polygon to be rebuilt
ReshapeSector ==
    /\ \E i \in 1..nSectors, bbox \in Boxes :
          sectors' = [sectors EXCEPT ![i] = [bbox |-> bbox, mt |-> clock, ptex |-> @.ptex, vbo |-> 2]]
    /\ geometry_updated' = clock
    /\ last' = MapOp("reshapeSector")
    /\ UNCHANGED <<clock, vertices, lines, things, things_updated, view_scale, fit, cacheVars, candidates, overlayVars, dc>>

\* a property change of a sector (texture, light level)
ModifySector ==
    /\ \E i \in 1..nSectors : sectors' = [sectors EXCEPT ![i].mt = clock]
    /\ last' = MapOp("modifySector")
    /\ UNCHANGED <<clock, vertices, lines, things, geometry_updated, things_updated,
                   view_scale, fit, cacheVars, candidates, overlayVars, dc>>

\* View::setScale / zoom
Zoom ==
    /\ \E sc \in Scales \ {view_scale} : view_scale' = sc
    /\ last' = MapOp("zoom")
    /\ UNCHANGED <<clock, mapVars, fit, cacheVars, candidates, overlayVars, dc>>

-----------------------------------------------------------------------------
(* The radius of the vertices. Floating-point values are fractions <<n, d>> *)
(* with d > 0.                                                               *)

QLess(a, b) == a[1] * b[2] < b[1] * a[2]
QMul(a, b)  == <<a[1] * b[1], a[2] * b[2]>>
QDiv(a, b)  == <<a[1] * b[2], a[2] * b[1]>>

\* the values of the setting vertex_size
VertexSizes == 0..12
\* the multipliers the callers pass: 1.0, 1.5, and 1.8 + 0.6 * fade at fade 1.0
Multipliers == {<<1, 1>>, <<3, 2>>, <<12, 5>>}

\* (variant: the minimum is applied before the shrink by the scale)
vertexRadius_ClampFirst(vertex_size, vscale, scale) ==
    LET raw     == QDiv(<<vertex_size, 1>>, vscale)
        min     == QDiv(<<4, 1>>, vscale)
        clamped == IF QLess(raw, min) THEN min ELSE raw
        size    == IF QLess(vscale, <<1, 1>>) THEN QMul(clamped, vscale) ELSE clamped
    IN  QMul(QMul(size, <<1, 2>>), scale)

\* MapRenderer2D::vertexRadius(scale), vscale being view_->scale(true).x
vertexRadius(vertex_size, vscale, scale) ==
    LET raw    == QDiv(<<vertex_size, 1>>, vscale)
        shrunk == IF QLess(vscale, <<1, 1>>) THEN QMul(raw, vscale) ELSE raw
        min    == QDiv(<<4, 1>>, vscale)
        size   == IF QLess(shrunk, min) THEN min ELSE shrunk
    IN  QMul(QMul(size, <<1, 2>>), scale)

\* a call of vertexRadius at the scale of the view
vertexRadiusCall ==
    \E vertex_size \in VertexSizes, scale \in Multipliers :
       /\ last' = [Op("vertexRadius", 0, FALSE, {}, {})
                     EXCEPT !.view = <<vertex_size, scale>>,
                            !.draws = {vertexRadius(vertex_size,
                                                    <<view_scale.num, view_scale.den>>, scale)}]
       /\ UNCHANGED <<clock, mapVars, view_scale, fit, cacheVars, candidates, overlayVars, dc>>

-----------------------------------------------------------------------------
(* View::fitTo. The scale is the fraction view_scale; a double cannot get    *)
(* smaller than the smallest positive one, which is taken to be reached      *)
(* after MaxShrinks divisions by scale_inc.                                  *)

MaxShrinks == 4

\* the bounding boxes to fit: a point, and boxes of some width and height
FitBoxes == {[minx |-> 5, maxx |-> 5, miny |-> 5, maxy |-> 5],
             [minx |-> 0, maxx |-> 2, miny |-> 0, maxy |-> 2],
             [minx |-> 0, maxx |-> 8, miny |-> 0, maxy |-> 4],
             [minx |-> -4, maxx |-> 0, miny |-> 2, maxy |-> 4]}

\* size_ of the view in pixels; a view that has not been sized yet is 0 x 0
ViewSizes == {[x |-> 0, y |-> 0], [x |-> 4, y |-> 4], [x |-> 8, y |-> 4]}

\* scale_inc: 2 and 1.5
ScaleIncs == {<<2, 1>>, <<3, 2>>}

\* a visible region: the four coordinates over the common denominator den; all
\* of them are NaN when den = 0
NoRegion == [tlx |-> 0, tly |-> 0, brx |-> 0, bry |-> 0, den |-> 1]

NoFit == [pc |-> "idle", bbox |-> DefaultBox, scale_inc |-> <<2, 1>>, size |-> [x |-> 0, y |-> 0],
          centered |-> TRUE, y_flipped |-> FALSE, offset |-> [x |-> <<0, 2>>, y |-> <<0, 2>>],
          shrinks |-> 0, visible_region |-> NoRegion]

\* View::canvasXUninterpolated over the denominator 2 * scale.num: screen / scale
\* + offset, minus half the size / scale in a centred view (f.offset is in halves)
canvasXUninterpolated(f, scale, screen_x) ==
    IF f.centered
      THEN 2 * screen_x * scale.den + f.offset.x[1] * scale.num - f.size.x * scale.den
      ELSE 2 * screen_x * scale.den + f.offset.x[1] * scale.num

\* View::canvasYUninterpolated
canvasYUninterpolated(f, scale, screen_y) ==
    LET y == IF f.y_flipped THEN f.size.y - screen_y ELSE screen_y
    IN  IF f.centered
          THEN 2 * y * scale.den + f.offset.y[1] * scale.num - f.size.y * scale.den
          ELSE 2 * y * scale.den + f.offset.y[1] * scale.num

\* View::updateVisibleRegion; divisions by a scale of 0 give 0 / 0
updateVisibleRegion(f, scale) ==
    IF scale.num = 0 THEN [NoRegion EXCEPT !.den = 0]
    ELSE IF f.y_flipped
      THEN [tlx |-> canvasXUninterpolated(f, scale, 0),
            tly |-> canvasYUninterpolated(f, scale, f.size.y),
            brx |-> canvasXUninterpolated(f, scale, f.size.x),
            bry |-> canvasYUninterpolated(f, scale, 0),
            den |-> 2 * scale.num]
      ELSE [tlx |-> canvasXUninterpolated(f, scale, 0),
            tly |-> canvasYUninterpolated(f, scale, 0),
            brx |-> canvasXUninterpolated(f, scale, f.size.x),
            bry |-> canvasYUninterpolated(f, scale, f.size.y),
            den |-> 2 * scale.num]

\* the test of the loop: the box lies inside the visible region; a comparison
\* with a NaN is false
FitsRegion(bbox, r) ==
    /\ r.den > 0
    /\ bbox.minx * r.den >= r.tlx /\ bbox.maxx * r.den <= r.brx
    /\ bbox.miny * r.den >= r.tly /\ bbox.maxy * r.den <= r.bry

\* scale_ * 1.0 / scale_inc: at the smallest positive double the quotient is
\* rounded to the nearest double, which is 0 for a scale_inc of 2 or more and
\* the smallest positive double again for a smaller one
ShrunkScale(f, scale) ==
    IF scale.num = 0 THEN scale
    ELSE IF f.shrinks < MaxShrinks
      THEN [num |-> scale.num * f.scale_inc[2], den |-> scale.den * f.scale_inc[1]]
    ELSE IF QLess(f.scale_inc, <<2, 1>>) THEN scale
    ELSE [num |-> 0, den |-> 1]

fitFrame == <<clock, mapVars, cacheVars, candidates, overlayVars, dc>>

\* View::fitTo, up to the loop: "reset zoom and set offsets to the middle of
\* the canvas"
fitTo ==
    /\ fit.pc = "idle"
    /\ \E bbox \in FitBoxes, scale_inc \in ScaleIncs, size \in ViewSizes,
          centered \in BOOLEAN, y_flipped \in BOOLEAN :
          fit' = [pc |-> "loop", bbox |-> bbox, scale_inc |-> scale_inc, size |-> size,
                  centered |-> centered, y_flipped |-> y_flipped,
                  offset |-> [x |-> <<2 * bbox.minx + (bbox.maxx - bbox.minx), 2>>,
                              y |-> <<2 * bbox.miny + (bbox.maxy - bbox.miny), 2>>],
                  shrinks |-> 0, visible_region |-> fit.visible_region]
    /\ view_scale' = [num |-> 2, den |-> 1]
    /\ last' = MapOp("fitTo")
    /\ UNCHANGED fitFrame

\* one iteration of "keep zooming out until we fit the whole canvas in the view"
fitLoop ==
    /\ fit.pc = "loop"
    /\ LET region == updateVisibleRegion(fit, view_scale)
       IN  IF FitsRegion(fit.bbox, region)
             THEN /\ fit' = [fit EXCEPT !.pc = "fitted", !.visible_region = region]
                  /\ UNCHANGED view_scale
             ELSE /\ fit' = [fit EXCEPT !.visible_region = region,
                                        !.shrinks = IF @ < MaxShrinks THEN @ + 1 ELSE @]
                  /\ view_scale' = ShrunkScale(fit, view_scale)
    /\ last' = MapOp("fitTo:loop")
    /\ UNCHANGED fitFrame

\* the end of View::fitTo
fitReturn ==
    /\ fit.pc = "fitted"
    /\ fit' = [fit EXCEPT !.pc = "idle"]
    /\ last' = [MapOp("fitTo:return") EXCEPT !.view = <<fit.shrinks>>]
    /\ UNCHANGED <<view_scale, fitFrame>>

-----------------------------------------------------------------------------
(* Visibility *)

\* (variant: the first test that holds decides, and the size test comes last)
SectorVisibility_FirstWins(bbox, view_tl, view_br, scale) ==
    IF bbox.maxx < view_tl.x THEN VIS_LEFT
    ELSE IF bbox.maxy < view_tl.y THEN VIS_ABOVE
    ELSE IF bbox.minx > view_br.x THEN VIS_RIGHT
    ELSE IF bbox.miny > view_br.y THEN VIS_BELOW
    ELSE IF \/ (bbox.maxx - bbox.minx) * scale.num < MinSectorPixels * scale.den
            \/ (bbox.maxy - bbox.miny) * scale.num < MinSectorPixels * scale.den
      THEN VIS_SMALL
      ELSE 0

\* (variant: the size test does not override a direction)
SectorVisibility_DirectionKept(bbox, view_tl, view_br, scale) ==
    LET v1 == IF bbox.maxx < view_tl.x THEN VIS_LEFT ELSE 0
        v2 == IF bbox.maxy < view_tl.y THEN VIS_ABOVE ELSE v1
        v3 == IF bbox.minx > view_br.x THEN VIS_RIGHT ELSE v2
        v4 == IF bbox.miny > view_br.y THEN VIS_BELOW ELSE v3
    IN  IF /\ v4 = 0
           /\ \/ (bbox.maxx - bbox.minx) * scale.num < MinSectorPixels * scale.den
              \/ (bbox.maxy - bbox.miny) * scale.num < MinSectorPixels * scale.den
          THEN VIS_SMALL
          ELSE v4

\* the body of the loop of updateVisibility for one sector
SectorVisibility(bbox, view_tl, view_br, scale) ==
    LET v0 == 0
        v1 == IF bbox.maxx < view_tl.x THEN VIS_LEFT ELSE v0
        v2 == IF bbox.maxy < view_tl.y THEN VIS_ABOVE ELSE v1
        v3 == IF bbox.minx > view_br.x THEN VIS_RIGHT ELSE v2
        v4 == IF bbox.miny > view_br.y THEN VIS_BELOW ELSE v3
    IN  IF \/ (bbox.maxx - bbox.minx) * scale.num < MinSectorPixels * scale.den
           \/ (bbox.maxy - bbox.miny) * scale.num < MinSectorPixels * scale.den
          THEN VIS_SMALL
          ELSE v4

RECURSIVE VisibilityLoop(_, _, _, _, _, _)
VisibilityLoop(vis, a, ss, view_tl, view_br, scale) ==
    IF a > Len(ss) THEN vis
    ELSE VisibilityLoop([vis EXCEPT ![a] = SectorVisibility(ss[a].bbox, view_tl, view_br, scale)],
                        a + 1, ss, view_tl, view_br, scale)

\* (variant: the table is not reset when the number of sectors changed)
updateVisibilityOf_NoReset(vis, ss, view_tl, view_br, scale) ==
    VisibilityLoop(vis, 1, ss, view_tl, view_br, scale)

\* MapRenderer2D::updateVisibility
updateVisibilityOf(vis, ss, view_tl, view_br, scale) ==
    LET vis0 == IF Len(ss) # Len(vis) THEN [a \in 1..Len(ss) |-> 0] ELSE vis
    IN  VisibilityLoop(vis0, 1, ss, view_tl, view_br, scale)

updateVisibility ==
    /\ \E view \in Views :
          /\ vis_s_' = updateVisibilityOf(vis_s_, sectors, view[1], view[2], view_scale)
          /\ last' = [MapOp("updateVisibility") EXCEPT !.view = view]
    /\ UNCHANGED <<clock, mapVars, view_scale, fit, vertVars, lineVars, thingVars, flatVars,
                   pathVars, candidates, overlayVars, dc>>

\* MapRenderer2D::visOK
visOK == nSectors = Len(vis_s_)

-----------------------------------------------------------------------------
(* Flats *)

FlatTypes == {1, 2}                    \* floor, ceiling

\* mapeditor::textureManager().flat(...).gl_id of the sector's floor / ceiling
FlatTexture(sector, type) == IF type <= 1 THEN 1 ELSE 2

\* Polygon2D::writeToVB / updateVBData: the polygon's buffer data is up to date
PolygonWritten(sector) == [sector EXCEPT !.vbo = 0]

\* Polygon2D::setTexture + updateTextureCoords: the buffer data needs a refresh
PolygonTextured(sector, tex) == [sector EXCEPT !.ptex = tex, !.vbo = Max(@, 1)]

\* MapRenderer2D::updateFlatsBuffer
updateFlatsBuffer(buf, ss, now) ==
    LET b0 == IF ~buf.present THEN EmptyBuffer ELSE buf
    IN  [buf     |-> BufferPush(BufferAddAll(b0, [a \in 1..Len(ss) |-> ss[a].bbox])),
         ss      |-> [a \in 1..Len(ss) |-> PolygonWritten(ss[a])],
         updated |-> now]

\* vis_s_[a] as renderFlats reads it: past the end of the table the value read
\* is whatever [oob] says
VisAt(a, oob) == IF a <= Len(vis_s_) THEN vis_s_[a] ELSE oob[a]

OobChoices(n) ==
    IF n <= Len(vis_s_) THEN {[a \in 1..n |-> 0]}
    ELSE [1..n -> {0, VIS_LEFT}]

\* the "go through sectors" loop of renderFlats; st is
\* [ss, tex_flats, tex, update, draws, stop]
RECURSIVE FlatsLoop(_, _, _, _, _, _)
FlatsLoop(st, a, type, texture, updated, oob) ==
    IF a > Len(st.ss) \/ st.stop THEN st
    ELSE IF VisAt(a, oob) > 0 THEN FlatsLoop(st, a + 1, type, texture, updated, oob)
    ELSE
      LET sector  == st.ss[a]
          lookup  == texture /\ (st.tex_flats[a] = 0 \/ sector.mt > updated - FlatTexGrace)
          tex     == IF ~texture THEN st.tex
                     ELSE IF lookup THEN FlatTexture(sector, type) ELSE st.tex_flats[a]
          tflats  == IF lookup THEN [st.tex_flats EXCEPT ![a] = tex] ELSE st.tex_flats
          s1      == IF texture /\ sector.ptex # tex THEN PolygonTextured(sector, tex) ELSE sector
          s2      == IF s1.vbo > 0 THEN PolygonWritten(s1) ELSE s1
          update  == IF s1.vbo > 0 THEN st.update + 1 ELSE st.update
          stop    == s1.vbo > 0 /\ update > MaxVBOUpdates
      IN  FlatsLoop([ss        |-> [st.ss EXCEPT ![a] = s2],
                     tex_flats |-> tflats,
                     tex       |-> tex,
                     update    |-> update,
                     draws     |-> IF stop THEN st.draws ELSE st.draws \cup {<<"flat", a>>},
                     stop      |-> stop],
                    a + 1, type, texture, updated, oob)

\* renderFlats: "don't bother if (practically) invisible"
FlatsRejected(alpha) == alpha <= AlphaMin

\* MapRenderer2D::renderFlats
renderFlats ==
    \E type \in FlatTypes, texture \in BOOLEAN, alpha \in Alphas, oob \in OobChoices(nSectors) :
       /\ IF FlatsRejected(alpha)
            THEN /\ UNCHANGED <<flatVars, sectors>>
                 /\ last' = Op("renderFlats", alpha, texture, {}, {})
            ELSE LET reinit == (texture /\ Len(tex_flats_) # nSectors) \/ last_flat_type_ # type
                     tf0    == IF reinit THEN [a \in 1..nSectors |-> 0] ELSE tex_flats_
                     c1     == IF ~flats_buffer_.present
                                 THEN updateFlatsBuffer(flats_buffer_, sectors, clock)
                                 ELSE [buf |-> flats_buffer_, ss |-> sectors, updated |-> flats_updated_]
                     changed == \E a \in 1..nSectors : c1.ss[a].vbo > 1
                     c2     == IF changed THEN updateFlatsBuffer(c1.buf, c1.ss, clock) ELSE c1
                     st     == FlatsLoop([ss |-> c2.ss, tex_flats |-> tf0, tex |-> 0, update |-> 0,
                                          draws |-> {}, stop |-> FALSE],
                                         1, type, texture, c2.updated, oob)
                 IN  /\ last_flat_type_' = IF reinit THEN type ELSE last_flat_type_
                     /\ flats_buffer_'   = c2.buf
                     /\ flats_updated_'  = c2.updated
                     /\ tex_flats_'      = st.tex_flats
                     /\ sectors'         = st.ss
                     /\ last' = [Op("renderFlats", alpha, texture,
                                    IF ~flats_buffer_.present \/ changed THEN {"flats"} ELSE {},
                                    st.draws)
                                 EXCEPT !.faults = IF nSectors > Len(vis_s_) THEN {"vis_s_ overrun"}
                                                   ELSE {}]
       /\ UNCHANGED <<clock, vertices, lines, things, geometry_updated, things_updated, view_scale, fit,
                      vertVars, lineVars, thingVars, vis_s_, pathVars, candidates, overlayVars, dc>>

-----------------------------------------------------------------------------
(* Thing paths *)

MaxPathThings == 3

PathTypes == {"Normal", "NormalBoth", "Dragon", "DragonBoth"}

\* game::configuration().thingType(type): a chain point whose target id is in
\* its first argument, a follower of chain points whose target id is spread over
\* its first (low) and second (high) argument, and a dragon thing
thingType(type) ==
    CASE type = 1 -> [dragon |-> FALSE, nextType |-> 1, nextArgs |-> 1]
      [] type = 2 -> [dragon |-> FALSE, nextType |-> 1, nextArgs |-> 21]
      [] OTHER    -> [dragon |-> TRUE,  nextType |-> 0, nextArgs |-> 0]

PathThingTypes == {1, 2, 3}
PathIds        == {0, 1}

PathThings ==
    {[type |-> ty, id |-> i, args |-> <<a0, a1, 0, 0, 0>>, mt |-> 0] :
        ty \in PathThingTypes, i \in PathIds, a0 \in PathIds, a1 \in {0, 1}}

\* the things a map can hold: only a follower uses its second argument
PathThingLists ==
    UNION {[1..n -> {t \in PathThings : t.type = 2 \/ t.args[2] = 0}] : n \in 1..MaxPathThings}

\* the target id a thing's arguments encode, tid being the value of the variable
\* before the decoding
TargetId(thing, nextargs, tid) ==
    LET low == IF nextargs # 0 THEN thing.args[nextargs % 10] ELSE tid
    IN  IF nextargs >= 10 THEN low + 256 * thing.args[nextargs \div 10] ELSE low

\* the loop over the candidates after [a]; path and tid2 live across iterations
RECURSIVE NormalLoop(_, _, _, _, _, _, _, _)
NormalLoop(cs, ts, a, b, tid, tid2, path, acc) ==
    IF b > Len(cs) THEN acc
    ELSE
      LET thing  == ts[cs[a]]
          thing2 == ts[cs[b]]
      IN  IF thing2.type = thingType(thing.type).nextType
            THEN LET t2 == TargetId(thing2, thingType(thing2.type).nextArgs, tid2)
                     p2 == IF thing2.id = tid
                             THEN [from_index |-> cs[a] - 1, to_index |-> cs[b] - 1,
                                   type |-> IF t2 = thing.id THEN "NormalBoth" ELSE "Normal"]
                           ELSE IF thing.id = t2
                             THEN [from_index |-> cs[b] - 1, to_index |-> cs[a] - 1,
                                   type |-> "Normal"]
                           ELSE path
                 IN  NormalLoop(cs, ts, a, b + 1, tid, t2, p2, Append(acc, p2))
            ELSE NormalLoop(cs, ts, a, b + 1, tid, tid2, path, acc)

\* map_->things().firstWithId(id): the position of the first thing with the id, or 0
firstWithId(ts, id) ==
    IF \E p \in 1..Len(ts) : ts[p].id = id
      THEN CHOOSE p \in 1..Len(ts) : ts[p].id = id /\ \A q \in 1..(p - 1) : ts[q].id # id
      ELSE 0

\* the positions in ps, in ascending order
RECURSIVE Ascending(_)
Ascending(ps) ==
    IF ps = {} THEN <<>>
    ELSE LET p == CHOOSE x \in ps : \A y \in ps : x <= y
         IN  <<p>> \o Ascending(ps \ {p})

\* map_->putDragonTargets(first, list): the things reachable from first through
\* the non-zero argument values of the things collected so far
RECURSIVE putDragonTargets(_, _, _)
putDragonTargets(ts, list, i) ==
    IF i > Len(list) THEN list
    ELSE LET targets == {p \in 1..Len(ts) :
                            /\ p \notin Range(list)
                            /\ \E s \in 1..5 : ts[list[i]].args[s] # 0 /\ ts[list[i]].args[s] = ts[p].id}
         IN  putDragonTargets(ts, list \o Ascending(targets), i + 1)

HasArg(thing, id) == \E s \in 1..5 : thing.args[s] = id

\* the loops over the pairs of dragon targets; uninit is what a ThingPath that
\* was never assigned holds
RECURSIVE DragonLoop(_, _, _, _, _, _)
DragonLoop(ts, dragon_things, d, e, uninit, acc) ==
    IF d > Len(dragon_things) THEN acc
    ELSE IF e > Len(dragon_things) THEN DragonLoop(ts, dragon_things, d + 1, d + 2, uninit, acc)
    ELSE
      LET t1    == ts[dragon_things[d]]
          t2    == ts[dragon_things[e]]
          l1to2 == HasArg(t1, t2.id)
          l2to1 == HasArg(t2, t1.id)
          dpath == IF l1to2
                     THEN [from_index |-> dragon_things[e] - 1, to_index |-> dragon_things[d] - 1,
                           type |-> IF l2to1 THEN "DragonBoth" ELSE "Dragon"]
                   ELSE IF l2to1
                     THEN [from_index |-> dragon_things[d] - 1, to_index |-> dragon_things[e] - 1,
                           type |-> "Dragon"]
                   ELSE uninit
      IN  IF ~(thingType(t1.type).dragon \/ thingType(t2.type).dragon)
            THEN DragonLoop(ts, dragon_things, d, e + 1, uninit, Append(acc, dpath))
            ELSE DragonLoop(ts, dragon_things, d, e + 1, uninit, acc)

\* (variant: the root edge runs from the first thing with the id to the dragon thing)
RootEdge_FromFirst(thing_index, first_index) ==
    [from_index |-> first_index, to_index |-> thing_index, type |-> "Dragon"]

\* the edge pushed for a dragon thing whose id some thing of the map has
RootEdge(thing_index, first_index) ==
    [from_index |-> thing_index, to_index |-> first_index, type |-> "Dragon"]

\* the loop of updateThingPaths over the candidates
RECURSIVE PathsLoop(_, _, _, _, _)
PathsLoop(cs, ts, a, uninit, acc) ==
    IF a > Len(cs) THEN acc
    ELSE
      LET thing == ts[cs[a]]
          tt    == thingType(thing.type)
          path  == [from_index |-> 0, to_index |-> 0, type |-> uninit.type]
          first == firstWithId(ts, thing.id)
          root  == RootEdge(cs[a] - 1, first - 1)
          tid   == TargetId(thing, tt.nextArgs, -1)
      IN  IF tt.dragon
            THEN IF first # 0
                   THEN PathsLoop(cs, ts, a + 1, uninit,
                           DragonLoop(ts, putDragonTargets(ts, <<first>>, 1), 1, 2, uninit,
                                      Append(acc, root)))
                   ELSE PathsLoop(cs, ts, a + 1, uninit, acc)
            ELSE PathsLoop(cs, ts, a + 1, uninit,
                           NormalLoop(cs, ts, a, a + 1, tid, -1, path, acc))

\* what a ThingPath declared without initialiser can hold on a map of n things
UninitPaths(n) ==
    [from_index : 0..(n - 1), to_index : 0..(n - 1), type : PathTypes]

\* MapRenderer2D::updateThingPaths
updateThingPaths ==
    /\ candidates # <<>>
    /\ \E uninit \in UninitPaths(nThings) :
          thing_paths_' = PathsLoop(candidates, things, 1, uninit, <<>>)
    /\ thing_paths_updated_' = clock
    /\ last' = Op("updateThingPaths", 100, FALSE, {"paths"}, {})
    /\ UNCHANGED <<clock, mapVars, view_scale, fit, vertVars, lineVars, thingVars, flatVars,
                   vis_s_, candidates, walk, overlayVars, dc>>

\* a change of the first argument of a thing
RetargetThing ==
    /\ \E i \in 1..nThings, v \in PathIds :
          /\ things[i].args[1] # v
          /\ things' = [things EXCEPT ![i].args[1] = v, ![i].mt = clock]
    /\ things_updated' = clock
    /\ last' = MapOp("retargetThing")
    /\ UNCHANGED <<clock, vertices, lines, sectors, geometry_updated, view_scale, fit, cacheVars, candidates, overlayVars, dc>>

\* the lists of things a caller can monitor: things of the map, in map order
RECURSIVE SubLists(_)
SubLists(n) ==
    IF n = 0 THEN {<<>>}
    ELSE SubLists(n - 1) \cup {Append(cs, n) : cs \in SubLists(n - 1)}

\* (variant: the paths are rebuilt whenever the map's things counter has moved)
PathsNeedUpdate_AnyThing(cs) ==
    \/ thing_paths_ = <<>>
    \/ things_updated > thing_paths_updated_

\* renderPathedThings: the test for updating the paths
PathsNeedUpdate(cs) ==
    \/ thing_paths_ = <<>>
    \/ /\ things_updated > thing_paths_updated_
       /\ \E p \in Range(cs) : things[p].mt > thing_paths_updated_

\* renderPathedThings: the lines built from the path list
PathLines(paths, ts) ==
    {<<IF paths[k].type \in {"Dragon", "DragonBoth"} THEN "dragon" ELSE "path",
       paths[k].from_index, paths[k].to_index>> :
        k \in {j \in 1..Len(paths) :
                  /\ paths[j].from_index # paths[j].to_index
                  /\ paths[j].from_index \in 0..(Len(ts) - 1)
                  /\ ts[paths[j].from_index + 1].args[4] # 0 \/ ts[paths[j].from_index + 1].args[5] # 0
                  /\ paths[j].to_index \in 0..(Len(ts) - 1)}}

\* renderPathedThings, "draw path lines": the context it leaves behind
PathsContext(c, path_lines) ==
    [c EXCEPT !.line_thickness = <<"line_width*1.5", 100>>,
              !.line_arrow_length = "0",
              !.colour = IF \E l \in path_lines : l[1] = "dragon" THEN <<"map_thing_path_dragon", 100>>
                         ELSE IF path_lines # {} THEN <<"map_thing_path", 100>>
                         ELSE @]

\* MapRenderer2D::renderPathedThings
renderPathedThings ==
    \E action_lines \in BOOLEAN, cs \in SubLists(nThings) :
       /\ candidates' = cs
       /\ IF ~action_lines \/ cs = <<>>
            THEN /\ last' = Op("renderPathedThings", 100, action_lines, {}, {})
                 /\ UNCHANGED <<thing_paths_, thing_paths_updated_, dc>>
            ELSE /\ IF PathsNeedUpdate(cs)
                      THEN /\ \E uninit \in UninitPaths(nThings) :
                                 thing_paths_' = PathsLoop(cs, things, 1, uninit, <<>>)
                           /\ thing_paths_updated_' = clock
                      ELSE /\ thing_paths_' = thing_paths_
                           /\ thing_paths_updated_' =
                                 IF things_updated > thing_paths_updated_
                                   THEN clock ELSE thing_paths_updated_
                 /\ last' = Op("renderPathedThings", 100, action_lines,
                               IF PathsNeedUpdate(cs) THEN {"paths"} ELSE {},
                               PathLines(thing_paths_', things))
                 /\ dc' = PathsContext(dc, PathLines(thing_paths_', things))
       /\ UNCHANGED <<clock, mapVars, view_scale, fit, vertVars, lineVars, thingVars, flatVars,
                      vis_s_, walk, overlayVars>>

\* updateThingPaths, one loop iteration at a time: walk holds the loop variables
\* a, b, d, e, the dragon targets in hand, and the pairs examined so far
NoWalk == [pc |-> "idle", a |-> 0, b |-> 0, d |-> 0, e |-> 0, targets |-> <<>>, visits |-> <<>>]

walkFrame == <<clock, mapVars, view_scale, fit, vertVars, lineVars, thingVars, flatVars, vis_s_,
               candidates, overlayVars, dc>>

\* thing_paths_.clear() and entry of the loop over a
beginPaths ==
    /\ walk.pc = "idle" /\ candidates # <<>>
    /\ walk' = [NoWalk EXCEPT !.pc = "outer", !.a = 1]
    /\ thing_paths_' = <<>>
    /\ last' = Op("updateThingPaths:begin", 100, FALSE, {}, {})
    /\ UNCHANGED <<walkFrame, thing_paths_updated_>>

\* head of the loop over a: leave, enter the dragon loops, skip, or enter the loop over b
outerNext(w) ==
    IF w.a > Len(candidates) THEN [w EXCEPT !.pc = "timestamp"]
    ELSE IF thingType(things[candidates[w.a]].type).dragon
      THEN IF firstWithId(things, things[candidates[w.a]].id) # 0
             THEN [w EXCEPT !.pc = "dragon", !.d = 1, !.e = 2,
                            !.targets = putDragonTargets(things,
                                           <<firstWithId(things, things[candidates[w.a]].id)>>, 1)]
             ELSE [w EXCEPT !.a = w.a + 1]
      ELSE [w EXCEPT !.pc = "normal", !.b = w.a + 1]

outerStep ==
    /\ walk.pc = "outer"
    /\ walk' = outerNext(walk)
    /\ UNCHANGED <<walkFrame, thing_paths_, thing_paths_updated_, last>>

\* (variant: the loop over b starts over instead of advancing)
normalNext_Restart(w) ==
    IF w.b > Len(candidates) THEN [w EXCEPT !.pc = "outer", !.a = w.a + 1]
    ELSE [w EXCEPT !.b = w.a + 1, !.visits = Append(w.visits, <<"normal", w.a, w.a, w.b>>)]

\* one iteration of the loop over b, or its end
normalNext(w) ==
    IF w.b > Len(candidates) THEN [w EXCEPT !.pc = "outer", !.a = w.a + 1]
    ELSE [w EXCEPT !.b = w.b + 1, !.visits = Append(w.visits, <<"normal", w.a, w.a, w.b>>)]

normalStep ==
    /\ walk.pc = "normal"
    /\ walk' = normalNext(walk)
    /\ UNCHANGED <<walkFrame, thing_paths_, thing_paths_updated_, last>>

\* one iteration of the loop over e, the end of it, or the end of the loop over d
dragonNext(w) ==
    IF w.d > Len(w.targets) THEN [w EXCEPT !.pc = "outer", !.a = w.a + 1, !.targets = <<>>]
    ELSE IF w.e > Len(w.targets) THEN [w EXCEPT !.d = w.d + 1, !.e = w.d + 2]
    ELSE [w EXCEPT !.e = w.e + 1, !.visits = Append(w.visits, <<"dragon", w.a, w.d, w.e>>)]

dragonStep ==
    /\ walk.pc = "dragon"
    /\ walk' = dragonNext(walk)
    /\ UNCHANGED <<walkFrame, thing_paths_, thing_paths_updated_, last>>

\* the end of updateThingPaths: the list as the loops have filled it, and the timestamp
endPaths ==
    /\ walk.pc = "timestamp"
    /\ \E uninit \in UninitPaths(nThings) :
          thing_paths_' = PathsLoop(candidates, things, 1, uninit, <<>>)
    /\ thing_paths_updated_' = clock
    /\ walk' = [walk EXCEPT !.pc = "done"]
    /\ last' = Op("updateThingPaths", 100, FALSE, {"paths"}, {})
    /\ UNCHANGED walkFrame

-----------------------------------------------------------------------------
(* Edit overlays. The map they draw carries positions: a vertex has a pos,  *)
(* a line its two vertices v1 and v2 and the sector of its front side, a    *)
(* thing a pos.                                                             *)

MaxOverlayVertices == 3   \* vertices of the map the overlays draw
MaxOverlayLines    == 2   \* largest number of lines of that map
MaxOverlayThings   == 1   \* largest number of things of that map
MaxItems           == 2   \* largest number of items handed to an overlay call

VecAdd(p, q) == <<p[1] + q[1], p[2] + q[2]>>

\* the movement vectors handed to the overlay calls
Offsets == {<<0, 0>>, <<1, 1>>}

\* item lists over the indices 0..n: the index n belongs to no feature
RECURSIVE ItemLists(_, _)
ItemLists(n, len) ==
    IF len = 0 THEN {<<>>}
    ELSE ItemLists(n, len - 1)
           \cup {Append(l, i) : l \in {m \in ItemLists(n, len - 1) : Len(m) = len - 1}, i \in 0..n}

\* Item::asVertex, asLine, asThing, asSector (and Map::vertex(index), ...): the
\* feature of that index, 0 for none
Resolve(index, n) == IF index \in 0..(n - 1) THEN index + 1 ELSE 0

\* the items of a list that resolve, in order
Resolved(items, n) ==
    LET kept == SelectSeq(items, LAMBDA i : Resolve(i, n) # 0)
    IN  [k \in 1..Len(kept) |-> Resolve(kept[k], n)]

x1y1(a) == vertices[lines[a].v1].pos
x2y2(a) == vertices[lines[a].v2].pos

\* (variant: a line is drawn only when both of its vertices move)
MovingLine_Both(drawn, a) == drawn[a].first /\ drawn[a].second

\* "skip if not attached to any moving vertices"
MovingLine(drawn, a) == drawn[a].first \/ drawn[a].second

\* (variant: every line that is drawn moves as a whole)
MovingEntry_Whole(drawn, a, move_vec) ==
    [line |-> a, from |-> VecAdd(x1y1(a), move_vec), to |-> VecAdd(x2y2(a), move_vec)]

\* "first vertex", "second vertex": an end moves when its bit is set
MovingEntry(drawn, a, move_vec) ==
    [line |-> a,
     from |-> IF drawn[a].first THEN VecAdd(x1y1(a), move_vec) ELSE x1y1(a),
     to   |-> IF drawn[a].second THEN VecAdd(x2y2(a), move_vec) ELSE x2y2(a)]

\* "update moving lines buffer with lines attached to moving vertices"
MovingEntries(drawn, move_vec) ==
    LET ids == SelectSeq([a \in 1..nLines |-> a], LAMBDA a : MovingLine(drawn, a))
    IN  [k \in 1..Len(ids) |-> MovingEntry(drawn, ids[k], move_vec)]

\* "determine what lines need drawing (and which of their vertices are being
\* moved)": the bits 1 and 2 of lines_drawn, from the moving vertices vs
LinesDrawn(vs) ==
    [a \in 1..nLines |-> [first |-> lines[a].v1 \in vs, second |-> lines[a].v2 \in vs]]

\* the record of an overlay call: its arguments and what it drew
OverlayOp(name, items, move_vec, draws) ==
    [op |-> name, alpha |-> 100, flag |-> FALSE, view |-> <<>>, rebuilt |-> {},
     draws |-> draws, faults |-> {}, items |-> items, move_vec |-> move_vec]

\* MapRenderer2D::renderMovingVertices
renderMovingVertices ==
    \E items \in ItemLists(nVertices, MaxItems), move_vec \in Offsets :
       LET vs    == Resolved(items, nVertices)
           drawn == LinesDrawn(Range(vs))
           buf   == BufferPush(BufferAddAll(temp_lines_buffer_, MovingEntries(drawn, move_vec)))
           points == [k \in 1..Len(vs) |-> VecAdd(vertices[vs[k]].pos, move_vec)]
       IN  /\ temp_lines_buffer_' = buf
           /\ dc' = [dc EXCEPT !.colour = <<"map_moving", 100>>, !.pointsprite_type = "Textured",
                               !.pointsprite_radius = "vertexRadius(1.5)",
                               !.texture = "vertexTexture"]
           /\ last' = OverlayOp("renderMovingVertices", items, move_vec,
                                {<<"lines", BufferDraw(buf)>>, <<"points", points>>})
           /\ UNCHANGED <<clock, mapVars, view_scale, fit, cacheVars, candidates,
                          thing_overlay_buffer_, temp_things_buffer_>>

\* the line overlays of renderMovingLines: every moving line, moved as a whole
LineOverlays(ls, move_vec) ==
    [k \in 1..Len(ls) |-> <<VecAdd(x1y1(ls[k]), move_vec), VecAdd(x2y2(ls[k]), move_vec)>>]

\* (variant: the moving lines are staged in the lines buffer of the map)
MovingLinesCall_MapBuffer(name, items, move_vec) ==
    LET ls    == Resolved(items, nLines)
        drawn == LinesDrawn({lines[ls[k]].v1 : k \in 1..Len(ls)} \cup {lines[ls[k]].v2 : k \in 1..Len(ls)})
        buf   == BufferPush(BufferAddAll(lines_buffer_, MovingEntries(drawn, move_vec)))
    IN  /\ lines_buffer_' = buf
        /\ dc' = [dc EXCEPT !.colour = <<"map_moving", 100>>, !.line_thickness = <<"line_width*3", 100>>]
        /\ last' = OverlayOp(name, items, move_vec,
                             {<<"lines", BufferDraw(buf)>>,
                              <<"overlays", LineOverlays(ls, move_vec)>>})
        /\ UNCHANGED <<clock, mapVars, view_scale, fit, vertVars, lines_dirs_, n_lines_, lines_updated_,
                       thingVars, flatVars, vis_s_, pathVars, candidates, overlayVars>>

\* MapRenderer2D::renderMovingLines, called as [name] with the line items [items]
MovingLinesCall(name, items, move_vec) ==
    LET ls    == Resolved(items, nLines)
        drawn == LinesDrawn({lines[ls[k]].v1 : k \in 1..Len(ls)} \cup {lines[ls[k]].v2 : k \in 1..Len(ls)})
        buf   == BufferPush(BufferAddAll(temp_lines_buffer_, MovingEntries(drawn, move_vec)))
    IN  /\ temp_lines_buffer_' = buf
        /\ dc' = [dc EXCEPT !.colour = <<"map_moving", 100>>, !.line_thickness = <<"line_width*3", 100>>]
        /\ last' = OverlayOp(name, items, move_vec,
                             {<<"lines", BufferDraw(buf)>>,
                              <<"overlays", LineOverlays(ls, move_vec)>>})
        /\ UNCHANGED <<clock, mapVars, view_scale, fit, cacheVars, candidates,
                       thing_overlay_buffer_, temp_things_buffer_>>

renderMovingLines ==
    \E items \in ItemLists(nLines, MaxItems), move_vec \in Offsets :
       MovingLinesCall("renderMovingLines", items, move_vec)

\* renderMovingSectors, "determine what lines are being moved": the parent
\* lines of the sides of the sectors ss, as line items in map order
LinesMoved(ss) ==
    LET ids == SelectSeq([a \in 1..nLines |-> a], LAMBDA a : lines[a].sector \in ss)
    IN  [k \in 1..Len(ids) |-> ids[k] - 1]

\* MapRenderer2D::renderMovingSectors
renderMovingSectors ==
    \E items \in ItemLists(nSectors, MaxItems), move_vec \in Offsets :
       MovingLinesCall("renderMovingSectors", LinesMoved(Range(Resolved(items, nSectors))), move_vec)

\* renderThings(things, alpha, offset): one add, push and draw of the temporary
\* things buffer for every thing type of the list, in the order the types appear;
\* st is [buf, draws]
RECURSIVE ThingListLoop(_, _, _, _, _)
ThingListLoop(st, ts, offset, index, types_rendered) ==
    IF index > Len(ts) THEN st
    ELSE IF ts[index].type \in types_rendered
      THEN ThingListLoop(st, ts, offset, index + 1, types_rendered)
      ELSE LET ids == SelectSeq([i \in 1..Len(ts) |-> i],
                                LAMBDA i : i >= index /\ ts[i].type = ts[index].type)
               entries == [k \in 1..Len(ids) |->
                              [type |-> ts[index].type, pos |-> VecAdd(ts[ids[k]].pos, offset)]]
               b == BufferPush(BufferAddAll(st.buf, entries))
           IN  ThingListLoop([buf |-> b, draws |-> Append(st.draws, BufferDraw(b))], ts, offset,
                             index + 1, types_rendered \cup {ts[index].type})

\* MapRenderer2D::renderThingOverlays: rectangles from the context when
\* thing_overlay_square is set, the thing overlay buffer otherwise
renderThingOverlays(c, buf, ts, offset, thing_overlay_square) ==
    LET entries == [k \in 1..Len(ts) |->
                       [type |-> ts[k].type, pos |-> VecAdd(ts[k].pos, offset)]]
    IN  IF thing_overlay_square
          THEN [dc |-> [c EXCEPT !.texture = "0"], buf |-> buf, draws |-> entries]
          ELSE LET b == BufferPush(BufferAddAll(buf, entries))
               IN  [dc |-> c, buf |-> b, draws |-> BufferDraw(b)]

\* renderMovingThings and renderPasteThings: the things, then their overlays in
\* the colour [colour]
ThingsCall(name, items, ts, offset, colour, thing_overlay_square) ==
    LET st == ThingListLoop([buf |-> temp_things_buffer_, draws |-> <<>>], ts, offset, 1, {})
        ov == renderThingOverlays([dc EXCEPT !.colour = colour], thing_overlay_buffer_, ts,
                                  offset, thing_overlay_square)
    IN  /\ temp_things_buffer_' = st.buf
        /\ thing_overlay_buffer_' = ov.buf
        /\ dc' = ov.dc
        /\ last' = OverlayOp(name, items, offset,
                             {<<"things", st.draws>>, <<"overlays", ov.draws>>})
        /\ UNCHANGED <<clock, mapVars, view_scale, fit, cacheVars, candidates, temp_lines_buffer_>>

\* MapRenderer2D::renderMovingThings
renderMovingThings ==
    \E items \in ItemLists(nThings, MaxItems), move_vec \in Offsets, square \in BOOLEAN :
       LET ids == Resolved(items, nThings)
       IN  ThingsCall("renderMovingThings", items, [k \in 1..Len(ids) |-> things[ids[k]]],
                      move_vec, <<"map_moving", 100>>, square)

\* the things of the clipboard: copies of things of the map
PasteLists == {[k \in 1..Len(ids) |-> things[ids[k]]] : ids \in SubLists(nThings)}

\* MapRenderer2D::renderPasteThings
renderPasteThings ==
    \E ts \in PasteLists, pos \in Offsets, square \in BOOLEAN :
       ThingsCall("renderPasteThings", ts, ts, pos, <<"map_linedraw", 100>>, square)

\* The group of an object edit. Its lines to draw are the edited lines, at
\* their edited place, and as extra lines the other lines attached to their
\* vertices; its things are edited things at their edited place.
EditGroups ==
    {[lines  |-> LET ls    == Resolved(g[1], nLines)
                     sel   == Range(ls)
                     drawn == LinesDrawn({lines[a].v1 : a \in sel} \cup {lines[a].v2 : a \in sel})
                     es    == MovingEntries(drawn, g[3])
                 IN  [k \in 1..Len(es) |->
                        [line |-> es[k].line, from |-> es[k].from, to |-> es[k].to,
                         extra |-> es[k].line \notin sel]],
      things |-> [k \in 1..Len(g[2]) |->
                    [type |-> things[g[2][k]].type, pos |-> VecAdd(things[g[2][k]].pos, g[3])]]] :
        g \in ItemLists(nLines, MaxItems) \X SubLists(nThings) \X Offsets}

\* renderObjectEditGroup, "draw things": one add, push and draw per thing
RECURSIVE EditThingLoop(_, _)
EditThingLoop(st, ts) ==
    IF ts = <<>> THEN st
    ELSE LET b == BufferPush(BufferAdd(st.buf, Head(ts)))
         IN  EditThingLoop([buf |-> b, draws |-> Append(st.draws, BufferDraw(b))], Tail(ts))

\* the vertices of the lines of a group
GroupVertices(group) ==
    {group.lines[k].from : k \in 1..Len(group.lines)} \cup {group.lines[k].to : k \in 1..Len(group.lines)}

\* MapRenderer2D::renderObjectEditGroup
renderObjectEditGroup ==
    \E group \in EditGroups :
       LET entries == [k \in 1..Len(group.lines) |->
                          [line |-> group.lines[k].line, from |-> group.lines[k].from,
                           to |-> group.lines[k].to]]
           buf     == BufferPush(BufferAddAll(temp_lines_buffer_, entries))
           kept    == SelectSeq(group.lines, LAMBDA l : ~l.extra)
           st      == EditThingLoop([buf |-> temp_things_buffer_, draws |-> <<>>], group.things)
           ov      == BufferPush(BufferAddAll(thing_overlay_buffer_, group.things))
       IN  /\ temp_lines_buffer_' = buf
           /\ dc' = [dc EXCEPT !.colour = <<"map_object_edit", 100>>, !.line_thickness = <<"line_width*3", 100>>,
                               !.pointsprite_type = "Textured",
                               !.pointsprite_radius = "vertexRadius(1)",
                               !.texture = "vertexTexture"]
           /\ IF group.things = <<>>
                THEN UNCHANGED <<temp_things_buffer_, thing_overlay_buffer_>>
                ELSE /\ temp_things_buffer_' = st.buf
                     /\ thing_overlay_buffer_' = ov
           /\ last' = OverlayOp("renderObjectEditGroup", group, <<0, 0>>,
                                {<<"lines", BufferDraw(buf)>>,
                                 <<"overlays", [k \in 1..Len(kept) |-> <<kept[k].from, kept[k].to>>]>>,
                                 <<"points", GroupVertices(group)>>}
                                \cup IF group.things = <<>> THEN {}
                                     ELSE {<<"things", st.draws>>, <<"thing overlays", BufferDraw(ov)>>})
           /\ UNCHANGED <<clock, mapVars, view_scale, fit, cacheVars, candidates>>

-----------------------------------------------------------------------------
(* Hilight and selection overlays. A fade is counted in hundredths. *)

Fades == {50, 100}

\* (variant: the fade of the caller is used whatever the flag)
EffectiveFade_Supplied(animate, fade) == fade

\* "reset fade if ... animation is disabled"
EffectiveFade(animate, fade) == IF ~animate THEN 100 ELSE fade

\* the record of a hilight or selection call: the fade it was given, the
\* animation flag, the fade it used, what it drew and where it faulted
FadedOp(name, items, fade, animate, draws, faults) ==
    [OverlayOp(name, items, <<0, 0>>, draws)
       EXCEPT !.alpha = EffectiveFade(animate, fade), !.flag = animate, !.view = <<fade>>,
              !.faults = faults]

\* the lines of sector s: the parent lines of its sides
SectorLines(s) ==
    LET ids == SelectSeq([a \in 1..nLines |-> a], LAMBDA a : lines[a].sector = s)
    IN  [k \in 1..Len(ids) |-> <<x1y1(ids[k]), x2y2(ids[k])>>]

\* MapRenderer2D::renderVertexHilight: draws entry [index] of the vertices
\* buffer; without a vertices buffer, or without that entry, the call faults
renderVertexHilight ==
    \E index \in (-1)..nVertices, fade \in Fades, animate \in BOOLEAN :
       LET v == Resolve(index, nVertices)
           f == EffectiveFade(animate, fade)
       IN  /\ last' =
                IF v = 0 THEN FadedOp("renderVertexHilight", <<index>>, fade, animate, {}, {})
                ELSE IF ~vertices_buffer_.present
                  THEN FadedOp("renderVertexHilight", <<index>>, fade, animate, {},
                               {"vertices_buffer_ is null"})
                ELSE IF v > Len(BufferDraw(vertices_buffer_))
                  THEN FadedOp("renderVertexHilight", <<index>>, fade, animate, {},
                               {"vertices_buffer_ has no such entry"})
                ELSE FadedOp("renderVertexHilight", <<index>>, fade, animate,
                             {<<"points", <<BufferDraw(vertices_buffer_)[v]>>>>,
                              <<"style", <<"map_hilight", f>>, 180 + (60 * f) \div 100>>}, {})
           /\ UNCHANGED <<clock, mapVars, view_scale, fit, cacheVars, candidates, overlayVars, dc>>

\* (variant: the colour and the thickness are set before the line is looked up)
LineHilight_ColourFirst(c, a, f) ==
    [dc    |-> [c EXCEPT !.colour = <<"map_hilight", f>>,
                         !.line_thickness = <<"line_width*lineHilightWidth", f>>],
     draws |-> IF a = 0 THEN {}
               ELSE {<<"overlays", << <<x1y1(a), x2y2(a)>>, <<"mid", "tab", a>> >> >>}]

\* renderLineHilight on line a (0: no such line) with the fade f: the context
\* it leaves and what it draws
LineHilight(c, a, f) ==
    IF a = 0 THEN [dc |-> c, draws |-> {}]
    ELSE [dc    |-> [c EXCEPT !.colour = <<"map_hilight", f>>,
                              !.line_thickness = <<"line_width*lineHilightWidth", f>>],
          draws |-> {<<"overlays", << <<x1y1(a), x2y2(a)>>, <<"mid", "tab", a>> >> >>}]

\* MapRenderer2D::renderLineHilight
renderLineHilight ==
    \E index \in (-1)..nLines, fade \in Fades, animate \in BOOLEAN :
       LET h == LineHilight(dc, Resolve(index, nLines), EffectiveFade(animate, fade))
       IN  /\ dc' = h.dc
           /\ last' = FadedOp("renderLineHilight", <<index>>, fade, animate, h.draws, {})
           /\ UNCHANGED <<clock, mapVars, view_scale, fit, cacheVars, candidates, overlayVars>>

\* MapRenderer2D::renderThingHilight
renderThingHilight ==
    \E index \in (-1)..nThings, fade \in Fades, animate \in BOOLEAN,
       thing_overlay_square \in BOOLEAN :
       LET t  == Resolve(index, nThings)
           f  == EffectiveFade(animate, fade)
           c  == [dc EXCEPT !.colour = <<"map_hilight", f>>]
           ov == renderThingOverlays(c, thing_overlay_buffer_, <<things[t]>>, <<0, 0>>, FALSE)
       IN  /\ IF t = 0
                THEN /\ last' = FadedOp("renderThingHilight", <<index>>, fade, animate, {}, {})
                     /\ UNCHANGED <<dc, thing_overlay_buffer_>>
                ELSE IF thing_overlay_square
                  THEN /\ dc' = [c EXCEPT !.texture = "0", !.line_thickness = <<"3", 100>>,
                                          !.colour = <<"map_hilight", f \div 2>>]
                       /\ last' = FadedOp("renderThingHilight", <<index>>, fade, animate,
                                          {<<"rect outline", things[t].pos>>,
                                           <<"rect", things[t].pos>>}, {})
                       /\ UNCHANGED thing_overlay_buffer_
                  ELSE /\ dc' = ov.dc
                       /\ thing_overlay_buffer_' = ov.buf
                       /\ last' = FadedOp("renderThingHilight", <<index>>, fade, animate,
                                          {<<"overlays", ov.draws>>, <<"radius_extra", 4 * f>>}, {})
           /\ UNCHANGED <<clock, mapVars, view_scale, fit, cacheVars, candidates,
                          temp_lines_buffer_, temp_things_buffer_>>

\* MapRenderer2D::renderFlatHilight: with sector_hilight_fill the polygon of
\* the sector is drawn from the flats buffer, a fault when there is none
renderFlatHilight ==
    \E index \in (-1)..nSectors, fade \in Fades, animate \in BOOLEAN,
       sector_hilight_fill \in BOOLEAN :
       LET sc == Resolve(index, nSectors)
           f  == EffectiveFade(animate, fade)
       IN  /\ IF sc = 0
                THEN /\ last' = FadedOp("renderFlatHilight", <<index>>, fade, animate, {}, {})
                     /\ UNCHANGED dc
                ELSE IF sector_hilight_fill /\ ~flats_buffer_.present
                  THEN /\ dc' = [dc EXCEPT !.colour = <<"map_hilight", f>>,
                                           !.line_thickness = <<"line_width*lineHilightWidth", f>>]
                       /\ last' = FadedOp("renderFlatHilight", <<index>>, fade, animate, {},
                                          {"flats_buffer_ is null"})
                  ELSE /\ dc' = [dc EXCEPT !.colour = <<"map_hilight", f>>,
                                           !.line_thickness =
                                              IF sector_hilight_fill
                                                THEN <<"line_width*lineHilightWidth*0.75", f>>
                                                ELSE <<"line_width*lineHilightWidth", f>>]
                       /\ last' = FadedOp("renderFlatHilight", <<index>>, fade, animate,
                                          {<<"overlays", SectorLines(sc)>>}
                                          \cup IF sector_hilight_fill THEN {<<"fill", sc>>} ELSE {},
                                          {})
           /\ UNCHANGED <<clock, mapVars, view_scale, fit, cacheVars, candidates, overlayVars>>

\* MapRenderer2D::renderVertexSelection
renderVertexSelection ==
    \E selection \in ItemLists(nVertices, MaxItems), fade \in Fades, animate \in BOOLEAN :
       LET vs == Resolved(selection, nVertices)
       IN  /\ IF selection = <<>>
                THEN /\ last' = FadedOp("renderVertexSelection", selection, fade, animate, {}, {})
                     /\ UNCHANGED dc
                ELSE /\ dc' = [dc EXCEPT !.colour = <<"map_selection", EffectiveFade(animate, fade)>>,
                                         !.texture = "vertexTexture(overlay)",
                                         !.pointsprite_type = "Textured",
                                         !.pointsprite_radius = "1.8*vertexRadius"]
                     /\ last' = FadedOp("renderVertexSelection", selection, fade, animate,
                                        {<<"points", [k \in 1..Len(vs) |-> vertices[vs[k]].pos]>>}, {})
           /\ UNCHANGED <<clock, mapVars, view_scale, fit, cacheVars, candidates, overlayVars>>

\* MapRenderer2D::renderLineSelection: every selected line and its direction tab
renderLineSelection ==
    \E selection \in ItemLists(nLines, MaxItems), fade \in Fades, animate \in BOOLEAN :
       LET ls == Resolved(selection, nLines)
       IN  /\ IF selection = <<>>
                THEN /\ last' = FadedOp("renderLineSelection", selection, fade, animate, {}, {})
                     /\ UNCHANGED dc
                ELSE /\ dc' = [dc EXCEPT !.colour = <<"map_selection", EffectiveFade(animate, fade)>>,
                                         !.line_thickness = <<"line_width*lineSelectionWidth", 100>>]
                     /\ last' = FadedOp("renderLineSelection", selection, fade, animate,
                                        {<<"overlays",
                                           [k \in 1..(2 * Len(ls)) |->
                                              IF k % 2 = 1
                                                THEN <<x1y1(ls[(k + 1) \div 2]), x2y2(ls[(k + 1) \div 2])>>
                                                ELSE <<"mid", "tab", ls[k \div 2]>>]>>}, {})
           /\ UNCHANGED <<clock, mapVars, view_scale, fit, cacheVars, candidates, overlayVars>>

\* MapRenderer2D::renderThingSelection
renderThingSelection ==
    \E selection \in ItemLists(nThings, MaxItems), fade \in Fades, animate \in BOOLEAN,
       thing_overlay_square \in BOOLEAN :
       LET ids == Resolved(selection, nThings)
           ov  == renderThingOverlays(
                     [dc EXCEPT !.colour = <<"map_selection", EffectiveFade(animate, fade)>>],
                     thing_overlay_buffer_, [k \in 1..Len(ids) |-> things[ids[k]]], <<0, 0>>,
                     thing_overlay_square)
       IN  /\ IF selection = <<>>
                THEN /\ last' = FadedOp("renderThingSelection", selection, fade, animate, {}, {})
                     /\ UNCHANGED <<dc, thing_overlay_buffer_>>
                ELSE /\ dc' = ov.dc
                     /\ thing_overlay_buffer_' = ov.buf
                     /\ last' = FadedOp("renderThingSelection", selection, fade, animate,
                                        {<<"overlays", ov.draws>>}, {})
           /\ UNCHANGED <<clock, mapVars, view_scale, fit, cacheVars, candidates,
                          temp_lines_buffer_, temp_things_buffer_>>

\* (variant: a sector pointer that is null is passed over)
FlatOverlayNull_Skipped(st, k, ub) == [st EXCEPT !.k = k + 1]

\* renderFlatOverlays reaching a null sector pointer: sector->index() is read
\* through it. The call stops there (ub = 0) or goes on with what the read
\* gave it, the data of sector ub.
FlatOverlayNull(st, k, ub) ==
    IF ub = 0 THEN [st EXCEPT !.k = k + 1, !.faults = @ \cup {"sector is null"}, !.stop = TRUE]
    ELSE [st EXCEPT !.k = k + 1, !.faults = @ \cup {"sector is null"},
                    !.lines = @ \o SelectSeq(SectorLines(ub), LAMBDA l : l \notin Range(st.lines))]

\* (variant: every sector that is not Visible is out of view)
OverlaySkipped_NotVisible(vis) == vis > 0

\* renderFlatOverlays, "don't draw if outside screen"
OverlaySkipped(vis) == vis > 0 /\ vis # VIS_SMALL

\* MapRenderer2D::renderFlatOverlays, "go through selection": st is
\* [k, lines, fills, faults, stop], ss the sectors (0 for a null pointer);
\* vis_s_ is read at the sector's index whatever the table's length
RECURSIVE renderFlatOverlays(_, _, _, _, _)
renderFlatOverlays(st, ss, oob, sector_selected_fill, ub) ==
    IF st.k > Len(ss) \/ st.stop THEN st
    ELSE IF ss[st.k] = 0
      THEN renderFlatOverlays(FlatOverlayNull(st, st.k, ub), ss, oob, sector_selected_fill, ub)
    ELSE LET read == IF ss[st.k] > Len(vis_s_)
                       THEN [st EXCEPT !.faults = @ \cup {"vis_s_ overrun"}]
                       ELSE st
         IN
         IF OverlaySkipped(VisAt(ss[st.k], oob))
           THEN renderFlatOverlays([read EXCEPT !.k = @ + 1], ss, oob, sector_selected_fill, ub)
         ELSE IF sector_selected_fill /\ ~flats_buffer_.present
           THEN [read EXCEPT !.faults = @ \cup {"flats_buffer_ is null"}, !.stop = TRUE]
         ELSE renderFlatOverlays(
                 [read EXCEPT !.k = @ + 1,
                              !.fills = IF sector_selected_fill THEN Append(@, ss[st.k]) ELSE @,
                              !.lines = @ \o SelectSeq(SectorLines(ss[st.k]),
                                                       LAMBDA l : l \notin Range(st.lines))],
                 ss, oob, sector_selected_fill, ub)

\* MapRenderer2D::renderFlatSelection: every item of the selection is handed
\* to renderFlatOverlays, resolved or not
renderFlatSelection ==
    \E selection \in ItemLists(nSectors, MaxItems), fade \in Fades, animate \in BOOLEAN,
       sector_selected_fill \in BOOLEAN, oob \in OobChoices(nSectors), ub \in 0..nSectors :
       LET ss == [k \in 1..Len(selection) |-> Resolve(selection[k], nSectors)]
           st == renderFlatOverlays([k |-> 1, lines |-> <<>>, fills |-> <<>>, faults |-> {},
                                     stop |-> FALSE], ss, oob, sector_selected_fill, ub)
       IN  /\ IF selection = <<>>
                THEN /\ last' = FadedOp("renderFlatSelection", selection, fade, animate, {}, {})
                     /\ UNCHANGED dc
                ELSE /\ dc' = [dc EXCEPT !.colour = <<"map_selection", EffectiveFade(animate, fade)>>,
                                         !.line_thickness = <<"line_width*2", 100>>]
                     /\ last' = FadedOp("renderFlatSelection", selection, fade, animate,
                                        IF st.stop THEN {}
                                        ELSE {<<"overlays", st.lines>>, <<"fills", st.fills>>},
                                        st.faults)
           /\ UNCHANGED <<clock, mapVars, view_scale, fit, cacheVars, candidates, overlayVars>>

-----------------------------------------------------------------------------
(* Tagged and tagging overlays. The caller hands over features of the map;  *)
(* action lines are drawn when there is a hilighted object and action_lines *)
(* is set.                                                                   *)

\* the line and its direction tab, for every line of the list
TaggedLineRects(ls) ==
    [k \in 1..(2 * Len(ls)) |->
        IF k % 2 = 1 THEN <<x1y1(ls[(k + 1) \div 2]), x2y2(ls[(k + 1) \div 2])>>
        ELSE <<"mid", "tab", ls[k \div 2]>>]

\* "render action lines": the context the arrows leave behind
ArrowsContext(c) ==
    [c EXCEPT !.line_thickness = <<"line_width*1.5", 100>>, !.line_arrow_length = "0"]

\* renderTaggedLines and renderTaggingLines: they differ in the direction of
\* the arrows only
TaggedLinesCall(name, ls, fade, animate, arrows, to_line) ==
    /\ dc' = ArrowsContext([dc EXCEPT !.colour = <<"map_tagged", EffectiveFade(animate, fade)>>])
    /\ last' = FadedOp(name, ls, fade, animate,
                       {<<"overlays", TaggedLineRects(ls)>>,
                        <<"arrows", IF arrows
                                      THEN [k \in 1..Len(ls) |->
                                              IF to_line THEN <<"object", ls[k]>>
                                              ELSE <<ls[k], "object">>]
                                      ELSE <<>> >>}, {})
    /\ UNCHANGED <<clock, mapVars, view_scale, fit, cacheVars, candidates, overlayVars>>

\* MapRenderer2D::renderTaggedLines
renderTaggedLines ==
    \E ls \in SubLists(nLines), fade \in Fades, animate \in BOOLEAN, arrows \in BOOLEAN :
       TaggedLinesCall("renderTaggedLines", ls, fade, animate, arrows, TRUE)

\* MapRenderer2D::renderTaggingLines
renderTaggingLines ==
    \E ls \in SubLists(nLines), fade \in Fades, animate \in BOOLEAN, arrows \in BOOLEAN :
       TaggedLinesCall("renderTaggingLines", ls, fade, animate, arrows, FALSE)

\* renderTaggedThings and renderTaggingThings: the overlays of the things in
\* the tagged colour, then the arrows
TaggedThingsCall(name, ids, fade, animate, arrows, to_thing, thing_overlay_square) ==
    LET ov == renderThingOverlays(
                 [dc EXCEPT !.colour = <<"map_tagged", EffectiveFade(animate, fade)>>],
                 thing_overlay_buffer_, [k \in 1..Len(ids) |-> things[ids[k]]], <<0, 0>>,
                 thing_overlay_square)
    IN  /\ dc' = IF arrows THEN ArrowsContext(ov.dc) ELSE ov.dc
        /\ thing_overlay_buffer_' = ov.buf
        /\ last' = FadedOp(name, ids, fade, animate,
                           {<<"overlays", ov.draws>>,
                            <<"arrows", IF arrows
                                          THEN [k \in 1..Len(ids) |->
                                                  IF to_thing THEN <<"object", ids[k]>>
                                                  ELSE <<ids[k], "object">>]
                                          ELSE <<>> >>}, {})
        /\ UNCHANGED <<clock, mapVars, view_scale, fit, cacheVars, candidates,
                       temp_lines_buffer_, temp_things_buffer_>>

\* MapRenderer2D::renderTaggedThings
renderTaggedThings ==
    \E ids \in SubLists(nThings), fade \in Fades, animate \in BOOLEAN, arrows \in BOOLEAN,
       thing_overlay_square \in BOOLEAN :
       TaggedThingsCall("renderTaggedThings", ids, fade, animate, arrows, TRUE,
                        thing_overlay_square)

\* MapRenderer2D::renderTaggingThings
renderTaggingThings ==
    \E ids \in SubLists(nThings), fade \in Fades, animate \in BOOLEAN, arrows \in BOOLEAN,
       thing_overlay_square \in BOOLEAN :
       TaggedThingsCall("renderTaggingThings", ids, fade, animate, arrows, FALSE,
                        thing_overlay_square)

\* MapRenderer2D::renderTaggedFlats. object is the hilighted object: 0 for
\* none (or action_lines off), a line of the map, or nLines + 1 for an object
\* that is no line; no arrow goes to a sector the hilighted line borders.
renderTaggedFlats ==
    \E ss \in SubLists(nSectors), fade \in Fades, animate \in BOOLEAN,
       sector_selected_fill \in BOOLEAN, oob \in OobChoices(nSectors),
       object \in 0..(nLines + 1) :
       LET st == renderFlatOverlays([k |-> 1, lines |-> <<>>, fills |-> <<>>, faults |-> {},
                                     stop |-> FALSE], ss, oob, sector_selected_fill, 0)
           c  == [dc EXCEPT !.colour = <<"map_tagged", EffectiveFade(animate, fade)>>,
                            !.line_thickness = <<"line_width*2", 100>>]
           to == SelectSeq(ss, LAMBDA sc : ~(object \in 1..nLines /\ lines[object].sector = sc))
       IN  /\ dc' = IF object # 0 /\ ~st.stop THEN ArrowsContext(c) ELSE c
           /\ last' = FadedOp("renderTaggedFlats", ss, fade, animate,
                              IF st.stop THEN {}
                              ELSE {<<"overlays", st.lines>>, <<"fills", st.fills>>,
                                    <<"arrows", IF object # 0
                                                  THEN [k \in 1..Len(to) |-> <<"object", to[k]>>]
                                                  ELSE <<>> >>},
                              st.faults)
           /\ UNCHANGED <<clock, mapVars, view_scale, fit, cacheVars, candidates, overlayVars>>
-----------------------------------------------------------------------------
(* forceUpdate *)

\* the tests of renderVertices and renderLines as they come out right after the
\* rebuild [c] made earlier in the same call
VerticesStaleAfter_Inclusive(c) ==
    \/ ~c.buf.present
    \/ nVertices # c.n
    \/ geometry_updated >= c.updated

VerticesStaleAfter(c) ==
    \/ ~c.buf.present
    \/ nVertices # c.n
    \/ geometry_updated > c.updated

LinesStaleAfter(c, show_direction) ==
    \/ ~c.buf.present
    \/ c.buf.uploaded = <<>>
    \/ show_direction # c.dirs
    \/ nLines # c.n
    \/ geometry_updated > c.updated
    \/ modifiedSince(lines, c.updated)

\* view_->scale().x as an alpha, in hundredths
ScaleAlpha == (100 * view_scale.num) \div view_scale.den

\* MapRenderer2D::forceUpdate: the two lists are cleared, the three buffers are
\* rebuilt, then renderVertices and renderLines run on the rebuilt buffers;
\* last.view counts the rebuilds of the lines, vertices and things buffers
forceUpdate ==
    \E line_alpha \in Alphas :
       LET l1  == updateLinesBuffer(lines_buffer_, lines, lines_dirs_, clock)
           v1  == updateVerticesBuffer(vertices_buffer_, vertices, clock)
           t1  == updateThingBuffers(things, clock)
           vdraw == ~VerticesRejected(ScaleAlpha)
           vagain == vdraw /\ VerticesStaleAfter(v1)
           v2  == IF vagain THEN updateVerticesBuffer(v1.buf, vertices, clock) ELSE v1
           ldraw == ~LinesRejected(line_alpha)
           lagain == ldraw /\ LinesStaleAfter(l1, l1.dirs)
           l2  == IF lagain THEN updateLinesBuffer(l1.buf, lines, l1.dirs, clock) ELSE l1
       IN  /\ tex_flats_' = <<>>
           /\ thing_paths_' = <<>>
           /\ lines_buffer_' = l2.buf /\ lines_dirs_' = l2.dirs
           /\ n_lines_' = l2.n /\ lines_updated_' = l2.updated
           /\ vertices_buffer_' = v2.buf /\ n_vertices_' = v2.n
           /\ vertices_updated_' = v2.updated
           /\ thing_buffers_' = t1.bufs /\ things_updated_' = t1.updated
           /\ last' = [Op("forceUpdate", line_alpha, l2.dirs, {"lines", "vertices", "things"},
                          (IF vdraw THEN {<<"vertices", 0>>} ELSE {})
                          \cup (IF ldraw THEN {<<"lines", 0>>} ELSE {}))
                       EXCEPT !.view = <<IF lagain THEN 2 ELSE 1, IF vagain THEN 2 ELSE 1, 1>>]
           /\ UNCHANGED <<clock, mapVars, view_scale, fit, things_angles_, flats_buffer_,
                          flats_updated_, last_flat_type_, vis_s_, thing_paths_updated_, walk,
                          candidates, overlayVars, dc>>


-----------------------------------------------------------------------------
(* The renderer and the map after construction: an empty map, no buffers *)

Init ==
    /\ clock = 1
    /\ vertices = <<>> /\ lines = <<>> /\ things = <<>> /\ sectors = <<>>
    /\ geometry_updated = 0
    /\ things_updated = 0
    /\ view_scale = [num |-> 1, den |-> 1]
    /\ fit = NoFit
    /\ vertices_buffer_ = NoBuffer /\ n_vertices_ = 0 /\ vertices_updated_ = 0
    /\ lines_buffer_ = NoBuffer /\ lines_dirs_ = FALSE /\ n_lines_ = 0 /\ lines_updated_ = 0
    /\ thing_buffers_ = <<>> /\ things_updated_ = 0 /\ things_angles_ = FALSE
    /\ flats_buffer_ = NoBuffer /\ flats_updated_ = 0 /\ tex_flats_ = <<>>
    /\ last_flat_type_ = -1
    /\ vis_s_ = <<>>
    /\ thing_paths_ = <<>> /\ thing_paths_updated_ = 0
    /\ candidates = <<>>
    /\ walk = NoWalk
    /\ FreshOverlay
    /\ last = MapOp("init")

\* the vertex, line and thing caches under edits of the map
Next ==
    \/ Tick
    \/ AddVertex \/ RemoveVertex \/ MoveVertex \/ ModifyVertex
    \/ AddLine \/ RemoveLine \/ ModifyLine
    \/ AddThing \/ RemoveThing \/ ModifyThing
    \/ renderVertices \/ renderLines \/ renderThings

Spec == Init /\ [][Next]_vars

\* the four render operations on maps that gain and lose features
NextReject ==
    \/ AddVertex \/ RemoveVertex
    \/ AddLine \/ RemoveLine
    \/ AddThing \/ RemoveThing
    \/ AddSector \/ RemoveSector
    \/ renderVertices \/ renderLines \/ renderThings \/ renderFlats

SpecReject == Init /\ [][NextReject]_vars

\* the visibility table under edits of the sectors and changes of the view
NextVis ==
    \/ AddSector \/ RemoveSector \/ ReshapeSector
    \/ Zoom
    \/ updateVisibility

SpecVis == Init /\ [][NextVis]_vars

\* a loaded map of pathed things, all of them candidates, in map order
InitPaths ==
    /\ clock = 1
    /\ vertices = <<>> /\ lines = <<>> /\ sectors = <<>>
    /\ things \in PathThingLists
    /\ geometry_updated = 0
    /\ things_updated = 0
    /\ view_scale = [num |-> 1, den |-> 1]
    /\ fit = NoFit
    /\ vertices_buffer_ = NoBuffer /\ n_vertices_ = 0 /\ vertices_updated_ = 0
    /\ lines_buffer_ = NoBuffer /\ lines_dirs_ = FALSE /\ n_lines_ = 0 /\ lines_updated_ = 0
    /\ thing_buffers_ = <<>> /\ things_updated_ = 0 /\ things_angles_ = FALSE
    /\ flats_buffer_ = NoBuffer /\ flats_updated_ = 0 /\ tex_flats_ = <<>>
    /\ last_flat_type_ = -1
    /\ vis_s_ = <<>>
    /\ thing_paths_ = <<>> /\ thing_paths_updated_ = 0
    /\ candidates = [p \in 1..Len(things) |-> p]
    /\ walk = NoWalk
    /\ FreshOverlay
    /\ last = MapOp("init")

\* the path list built from a list of candidates
NextPaths == updateThingPaths

SpecPaths == InitPaths /\ [][NextPaths]_vars

\* a map of two chain points
InitPathed ==
    /\ InitPaths
    /\ Len(things) = 2 /\ \A p \in 1..2 : things[p].type = 1

\* the path list under changes of the things and repeated render calls
NextPathed == Tick \/ ModifyThing \/ RetargetThing \/ renderPathedThings

SpecPathed == InitPathed /\ [][NextPathed]_vars

\* updateThingPaths running loop iteration by loop iteration
NextWalk == beginPaths \/ outerStep \/ normalStep \/ dragonStep \/ endPaths

SpecWalk == InitPaths /\ [][NextWalk]_vars

\* the things of the maps the overlays are drawn over
OverlayThings ==
    {[k \in 1..Len(ts) |-> [type |-> ts[k], id |-> 0, args |-> <<0, 0, 0, 0, 0>>, mt |-> 0,
                            pos |-> <<k, 2>>]] :
        ts \in [1..MaxOverlayThings -> 1..MaxTypes]}

\* their lines: v1 and v2 are vertices, sector the sector of the front side
OverlayLines ==
    {[mt |-> 0, v1 |-> a, v2 |-> b, sector |-> sc] :
        a \in 1..MaxOverlayVertices, b \in 1..MaxOverlayVertices, sc \in 0..1}

OverlayMaps ==
    {l \in UNION {[1..n -> OverlayLines] : n \in 0..MaxOverlayLines} :
        \A a \in 1..Len(l) : l[a].v1 # l[a].v2}

\* the viewport that shows the whole map
WholeMap == <<[x |-> 0, y |-> 0], [x |-> 30, y |-> 30]>>

\* a renderer over a loaded map with the lines ls and the things ts: just
\* constructed, or (drawn) after updateVisibility with the viewport view and
\* renderFlats, renderVertices, renderLines and renderThings have drawn the
\* map once; ss are its sectors
LoadedMapOf(ls, ts, ss, drawn, view) ==
    /\ clock = 1
    /\ vertices = [i \in 1..MaxOverlayVertices |-> [mt |-> 0, pos |-> <<i, 0>>]]
    /\ lines = ls
    /\ things = ts
    /\ geometry_updated = 0
    /\ things_updated = 0
    /\ view_scale = [num |-> 1, den |-> 1]
    /\ fit = NoFit
    /\ IF drawn
         THEN /\ vertices_buffer_ = updateVerticesBuffer(NoBuffer, vertices, clock).buf
              /\ n_vertices_ = nVertices /\ vertices_updated_ = clock
              /\ lines_buffer_ = updateLinesBuffer(NoBuffer, lines, FALSE, clock).buf
              /\ lines_dirs_ = FALSE /\ n_lines_ = nLines /\ lines_updated_ = clock
              /\ thing_buffers_ = updateThingBuffers(things, clock).bufs
              /\ things_updated_ = clock /\ things_angles_ = FALSE
              /\ sectors = updateFlatsBuffer(NoBuffer, ss, clock).ss
              /\ flats_buffer_ = updateFlatsBuffer(NoBuffer, ss, clock).buf
              /\ flats_updated_ = clock /\ tex_flats_ = [a \in 1..Len(ss) |-> 0]
              /\ last_flat_type_ = 1
              /\ vis_s_ = updateVisibilityOf(<<>>, ss, view[1], view[2], view_scale)
         ELSE /\ vertices_buffer_ = NoBuffer /\ n_vertices_ = 0 /\ vertices_updated_ = 0
              /\ lines_buffer_ = NoBuffer /\ lines_dirs_ = FALSE /\ n_lines_ = 0 /\ lines_updated_ = 0
              /\ thing_buffers_ = <<>> /\ things_updated_ = 0 /\ things_angles_ = FALSE
              /\ sectors = ss
              /\ flats_buffer_ = NoBuffer /\ flats_updated_ = 0 /\ tex_flats_ = <<>>
              /\ last_flat_type_ = -1
              /\ vis_s_ = <<>>
    /\ thing_paths_ = <<>> /\ thing_paths_updated_ = 0
    /\ candidates = <<>>
    /\ walk = NoWalk
    /\ FreshOverlay
    /\ last = MapOp("init")

\* the loaded map of one new sector
LoadedMap(ls, ts, drawn, view) == LoadedMapOf(ls, ts, <<NewSector>>, drawn, view)

\* moving vertices over every map of the bounds, lines removed between the calls
InitMoving == \E ls \in OverlayMaps, view \in {WholeMap} : LoadedMap(ls, <<>>, FALSE, view)

NextMoving == RemoveLine \/ renderMovingVertices

SpecMoving == InitMoving /\ [][NextMoving]_vars

\* every overlay call over a map that has been drawn, of lines in a chain,
\* each sharing a vertex with the next
InitOverlay ==
    \E ls \in {l \in OverlayMaps : /\ Len(l) = MaxOverlayLines
                                     /\ \A a \in 1..Len(l) :
                                           /\ l[a].v1 = a /\ l[a].v2 = a + 1
                                           /\ l[a].sector = a % 2},
       ts \in OverlayThings, view \in {WholeMap} :
       LoadedMap(ls, ts, TRUE, view)

NextOverlay ==
    \/ renderMovingVertices \/ renderMovingLines \/ renderMovingSectors
    \/ renderMovingThings \/ renderPasteThings \/ renderObjectEditGroup

SpecOverlay == InitOverlay /\ [][NextOverlay]_vars

\* the hilight calls over a map of lines in a chain, drawn or not yet drawn
InitHilight ==
    \E ls \in {l \in OverlayMaps : /\ Len(l) = MaxOverlayLines
                                     /\ \A a \in 1..Len(l) :
                                           /\ l[a].v1 = a /\ l[a].v2 = a + 1
                                           /\ l[a].sector = a % 2},
       ts \in OverlayThings, drawn \in BOOLEAN, view \in {WholeMap} :
       LoadedMap(ls, ts, drawn, view)

NextHilight ==
    \/ renderVertexHilight \/ renderLineHilight \/ renderThingHilight \/ renderFlatHilight

SpecHilight == InitHilight /\ [][NextHilight]_vars

\* the selection calls over a map of lines in a chain, drawn under any of the
\* viewports
InitSelection ==
    \E ls \in {l \in OverlayMaps : /\ Len(l) = MaxOverlayLines
                                     /\ \A a \in 1..Len(l) :
                                           /\ l[a].v1 = a /\ l[a].v2 = a + 1
                                           /\ l[a].sector = a % 2},
       ts \in OverlayThings, view \in Views :
       LoadedMap(ls, ts, TRUE, view)

NextSelection ==
    \/ renderVertexSelection \/ renderLineSelection \/ renderThingSelection
    \/ renderFlatSelection

SpecSelection == InitSelection /\ [][NextSelection]_vars

\* maps of things of several types
TypedThings ==
    {[k \in 1..Len(ts) |-> [type |-> ts[k], id |-> 0, args |-> <<0, 0, 0, 0, 0>>, mt |-> 0,
                            pos |-> <<k, 2>>]] :
        ts \in UNION {[1..n -> 1..MaxThingKinds] : n \in 0..MaxTypedThings}}

InitTyped == \E ts \in TypedThings : LoadedMap(<<>>, ts, FALSE, WholeMap)

\* renderThings over things that are removed and change their type
NextTyped == Tick \/ RemoveThing \/ SetThingType \/ renderThings

SpecTyped == InitTyped /\ [][NextTyped]_vars

\* bounding boxes that the viewports put in every class of visibility
FlatBoxes ==
    {DefaultBox,
     [minx |-> 0,  maxx |-> 8,  miny |-> 0,  maxy |-> 8],
     [minx |-> 22, maxx |-> 30, miny |-> 12, maxy |-> 18],
     [minx |-> 12, maxx |-> 18, miny |-> 0,  maxy |-> 8],
     [minx |-> 0,  maxx |-> 2,  miny |-> 0,  maxy |-> 2]}

\* a drawn map of two sectors, each with one line, the first sector at any of
\* the boxes
InitFlats ==
    \E bbox \in FlatBoxes, view \in {WholeMap} :
       LoadedMapOf(<<[mt |-> 0, v1 |-> 1, v2 |-> 2, sector |-> 1],
                     [mt |-> 0, v1 |-> 2, v2 |-> 3, sector |-> 2]>>,
                   <<>>,
                   <<[NewSector EXCEPT !.bbox = bbox], NewSector>>,
                   TRUE, view)

\* the flats and their overlays as the view moves
NextFlats == updateVisibility \/ renderFlats \/ renderTaggedFlats

SpecFlats == InitFlats /\ [][NextFlats]_vars

\* sectors come and go between the calls that refresh and that read the
\* visibility table
NextStale ==
    \/ AddSector \/ RemoveSector
    \/ Zoom
    \/ updateVisibility
    \/ renderFlats \/ renderTaggedFlats

SpecStale == Init /\ [][NextStale]_vars

\* the overlay calls that draw from the cached buffers, on a map that may not
\* have been drawn yet, between render calls that build them unless rejected
NextUnbuilt ==
    \/ renderVertices \/ renderFlats
    \/ renderVertexHilight \/ renderFlatHilight \/ renderTaggedFlats

SpecUnbuilt == InitHilight /\ [][NextUnbuilt]_vars

\* two chain points, the first referencing the second
ChainedThings ==
    <<[type |-> 1, id |-> 0, args |-> <<1, 0, 0, 0, 0>>, mt |-> 0],
      [type |-> 1, id |-> 1, args |-> <<0, 0, 0, 0, 0>>, mt |-> 0]>>

\* a loaded map without lines and with the two chain points, just constructed
\* or drawn once
InitForce ==
    \E drawn \in BOOLEAN : LoadedMapOf(<<>>, ChainedThings, <<NewSector>>, drawn, WholeMap)

\* forceUpdate between edits of the map and render calls
NextForce ==
    \/ Tick
    \/ AddLine \/ ModifyLine \/ ModifyThing
    \/ renderLines \/ renderPathedThings
    \/ forceUpdate

SpecForce == InitForce /\ [][NextForce]_vars

\* calls of View::fitTo, one loop iteration at a time; the call keeps running
NextFit == fitTo \/ fitLoop \/ fitReturn

SpecFit == Init /\ [][NextFit]_vars /\ WF_vars(fitLoop) /\ WF_vars(fitReturn)

\* vertexRadius at the scales of the view
NextRadius == Zoom \/ vertexRadiusCall

SpecRadius == Init /\ [][NextRadius]_vars

\* the hilight calls, the tagged and tagging calls and the selection call of
\* the lines over the drawn map
NextFade ==
    \/ renderVertexHilight \/ renderLineHilight \/ renderThingHilight \/ renderFlatHilight
    \/ renderLineSelection
    \/ renderTaggedLines \/ renderTaggingLines \/ renderTaggedThings \/ renderTaggingThings
    \/ renderTaggedFlats

SpecFade == InitOverlay /\ [][NextFade]_vars

-----------------------------------------------------------------------------
(* Properties of the cached buffers *)

\* the last step was a call of the render operation [name], not a tick of the clock
RenderStep(name) == last'.op = name /\ clock' = clock
Visible(op)      == op.alpha > AlphaMin
Drew(name)       == last.op = name /\ last.draws # {}

\* number of things held by the thing buffers
RECURSIVE CachedThingCount(_)
CachedThingCount(bufs) ==
    IF bufs = <<>> THEN 0 ELSE Len(Head(bufs).uploaded) + CachedThingCount(Tail(bufs))

\* "valid" as the data model defines it: count, map version, per-feature times
VertexCacheValid ==
    /\ vertices_buffer_.present
    /\ n_vertices_ = nVertices
    /\ vertices_updated_ >= geometry_updated
    /\ \A i \in 1..nVertices : vertices[i].mt <= vertices_updated_
LineCacheValid ==
    /\ lines_buffer_.present
    /\ n_lines_ = nLines
    /\ lines_updated_ >= geometry_updated
    /\ \A i \in 1..nLines : lines[i].mt <= lines_updated_
ThingCacheValid ==
    /\ thing_buffers_ # <<>>
    /\ CachedThingCount(thing_buffers_) = nThings
    /\ things_updated_ >= things_updated
    /\ \A i \in 1..nThings : things[i].mt <= things_updated_

VertexCacheChecked ==
    /\ vertices_buffer_.present
    /\ n_vertices_ = nVertices
    /\ vertices_updated_ >= geometry_updated
LineCacheChecked ==
    /\ lines_buffer_.present /\ lines_buffer_.uploaded # <<>>
    /\ n_lines_ = nLines
    /\ lines_updated_ >= geometry_updated
    /\ \A i \in 1..nLines : lines[i].mt <= lines_updated_
ThingCacheChecked ==
    /\ thing_buffers_ # <<>>
    /\ things_updated_ >= things_updated

C1_DrawnCacheChecked ==
    /\ Drew("renderVertices") => VertexCacheChecked
    /\ Drew("renderLines")    => LineCacheChecked /\ lines_dirs_ = last.flag
    /\ Drew("renderThings")   => ThingCacheChecked

C1_RebuildsWhenCheckFails ==
    /\ RenderStep("renderVertices") /\ Visible(last') /\ nVertices > 0
          => ("vertices" \in last'.rebuilt <=> ~VertexCacheChecked)
    /\ RenderStep("renderLines") /\ Visible(last') /\ nLines > 0
          => ("lines" \in last'.rebuilt <=> ~(LineCacheChecked /\ lines_dirs_ = last'.flag))
    /\ RenderStep("renderThings") /\ Visible(last') /\ nThings > 0
          => ("things" \in last'.rebuilt <=> ~ThingCacheChecked)

C2_RepeatedRenderNoRebuild ==
    [][ \A name \in {"renderVertices", "renderLines", "renderThings"} :
           ( /\ last.op = name /\ Visible(last)
             /\ RenderStep(name) /\ Visible(last')
             /\ last'.flag = last.flag \/ name # "renderLines"
             /\ (name = "renderVertices" => nVertices > 0)
             /\ (name = "renderLines" => nLines > 0)
             /\ (name = "renderThings" => nThings > 0) )
           => last'.rebuilt = {} ]_vars

\* C2 witness: renderLines drew from a cache built at an earlier clock value
\* without rebuilding it
C2_Witness ==
    /\ Drew("renderLines") /\ last.rebuilt = {}
    /\ lines_updated_ < clock

AllCachesValid == VertexCacheValid /\ LineCacheValid /\ ThingCacheValid

\* a step that stamps one feature's modifiedTime and changes no count
BumpStep(name)  == last'.op = name /\ clock' = clock /\ mapVars' # mapVars

\* would the next render call of each kind rebuild?
NextVerticesRebuild == nVertices > 0 /\ VerticesStale
NextLinesRebuild    == nLines > 0 /\ LinesStale(lines_dirs_)
NextThingsRebuild   == nThings > 0 /\ ThingsStale

C3_BumpEffect ==
    AllCachesValid =>
       /\ BumpStep("modifyVertex")
             => ~NextVerticesRebuild' /\ ~NextLinesRebuild' /\ ~NextThingsRebuild'
       /\ BumpStep("moveVertex")
             => /\ NextVerticesRebuild' <=> clock > vertices_updated_
                /\ NextLinesRebuild' <=> clock > lines_updated_
                /\ ~NextThingsRebuild'
       /\ BumpStep("modifyLine")
             => /\ NextLinesRebuild' <=> clock > lines_updated_
                /\ ~NextVerticesRebuild' /\ ~NextThingsRebuild'
       /\ BumpStep("modifyThing")
             => /\ NextThingsRebuild' <=> clock > things_updated_
                /\ ~NextVerticesRebuild' /\ ~NextLinesRebuild'

C3_RebuiltOnce ==
    /\ RenderStep("renderVertices") /\ Visible(last') /\ nVertices > 0
          => ("vertices" \in last'.rebuilt <=> NextVerticesRebuild) /\ ~NextVerticesRebuild'
    /\ RenderStep("renderLines") /\ Visible(last') /\ nLines > 0 /\ last'.flag = lines_dirs_
          => ("lines" \in last'.rebuilt <=> NextLinesRebuild) /\ ~NextLinesRebuild'
    /\ RenderStep("renderThings") /\ Visible(last') /\ nThings > 0
          => ("things" \in last'.rebuilt <=> NextThingsRebuild) /\ ~NextThingsRebuild'

-----------------------------------------------------------------------------
(* Fast reject *)

RenderOps == {"renderVertices", "renderLines", "renderThings", "renderFlats"}

\* the call left the map and every cache of the renderer as they were and drew nothing
Untouched ==
    /\ UNCHANGED <<mapVars, cacheVars>>
    /\ last'.rebuilt = {} /\ last'.draws = {}

\* C4: a render call with alpha <= 0.01 (0.01 included) returns immediately: no
\* buffer created or rebuilt, no cached count, time or texture table changed, no
\* draw issued.
C4_InvisibleRenderUntouched ==
    [][ \A name \in RenderOps :
           RenderStep(name) /\ last'.alpha <= AlphaMin => Untouched ]_vars

\* C4 witness: renderThings was called with alpha = 0.01 on a map with things
\* while no thing buffer was built, and none is built afterwards
C4_Witness ==
    /\ last.op = "renderThings" /\ last.alpha = AlphaMin
    /\ nThings > 0 /\ thing_buffers_ = <<>>

\* C5 as stated: a render call made while the map holds no feature of its type
\* returns immediately for any alpha.
C5_EmptyRenderUntouched ==
    [][ /\ RenderStep("renderVertices") /\ nVertices = 0 => Untouched
        /\ RenderStep("renderLines") /\ nLines = 0 => Untouched
        /\ RenderStep("renderThings") /\ nThings = 0 => Untouched
        /\ RenderStep("renderFlats") /\ nSectors = 0 => Untouched ]_vars

\* what a visible renderFlats call does on a map without sectors
EmptyFlatsEffect ==
    /\ last'.draws = {}
    /\ UNCHANGED <<mapVars, vertVars, lineVars, thingVars, vis_s_, pathVars>>
    /\ flats_buffer_' = IF flats_buffer_.present THEN flats_buffer_ ELSE EmptyBuffer
    /\ flats_updated_' = IF flats_buffer_.present THEN flats_updated_ ELSE clock
    /\ tex_flats_' \in {tex_flats_, <<>>}
    /\ last_flat_type_' \in FlatTypes

\* C5 (amended): renderVertices, renderLines and renderThings return immediately,
\* for any alpha, while the map holds no feature of their type. renderFlats has
\* no such test: called with alpha > 0.01 on a map without sectors it issues no
\* polygon draw and leaves the map, the other caches and the visibility table
\* alone, but it creates the (empty) flats buffer if there was none, stamping
\* flats_updated_, and may reset the texture table and last_flat_type_.
C5_EmptyRender ==
    [][ /\ RenderStep("renderVertices") /\ nVertices = 0 => Untouched
        /\ RenderStep("renderLines") /\ nLines = 0 => Untouched
        /\ RenderStep("renderThings") /\ nThings = 0 => Untouched
        /\ RenderStep("renderFlats") /\ nSectors = 0 /\ Visible(last') => EmptyFlatsEffect ]_vars

\* C5 witness: renderVertices was called with a visible alpha after the last
\* vertex was removed, and the vertex cache still holds the earlier build
C5_Witness ==
    /\ last.op = "renderVertices" /\ Visible(last) /\ last.draws = {}
    /\ nVertices = 0 /\ n_vertices_ > 0

-----------------------------------------------------------------------------
(* Properties of the visibility table *)

AfterUpdateVisibility == last.op = "updateVisibility"
view_tl == last.view[1]
view_br == last.view[2]

SectorStep == (last'.op = "addSector" \/ last'.op = "removeSector") /\ nSectors' # nSectors

C6_TableMatchesSectors ==
    /\ AfterUpdateVisibility => Len(vis_s_) = nSectors
    /\ visOK <=> Len(vis_s_) = nSectors

\* C6: right after updateVisibility the table has as many entries as the map has
\* sectors; visOK() is true exactly when the table length equals the sector
\* count, so adding or removing a sector turns a true visOK() false, and the
\* next updateVisibility makes it true again.
C6_VisibilityTableSize ==
    /\ []C6_TableMatchesSectors
    /\ [][(visOK /\ SectorStep => ~visOK') /\ (last'.op = "updateVisibility" => visOK')]_vars

\* C6 witness: updateVisibility ran on a map with sectors, and the table has one
\* entry per sector
C6_Witness ==
    /\ AfterUpdateVisibility /\ nSectors > 0 /\ Len(vis_s_) = nSectors

\* the size test of the claims, on the bounding box and the zoom
BelowThreshold(bbox, scale) ==
    \/ (bbox.maxx - bbox.minx) * scale.num < 4 * scale.den
    \/ (bbox.maxy - bbox.miny) * scale.num < 4 * scale.den

\* C7: after updateVisibility every sector below the 4 pixel threshold at the
\* current zoom is TooSmall, wherever it lies relative to the viewport.
C7_TooSmallWins ==
    AfterUpdateVisibility =>
       \A a \in 1..nSectors :
          BelowThreshold(sectors[a].bbox, view_scale) => vis_s_[a] = VIS_SMALL

\* C7 witness: a sector entirely left of the viewport and below the threshold
\* has been classified TooSmall
C7_Witness ==
    /\ AfterUpdateVisibility
    /\ \E a \in 1..nSectors :
          /\ sectors[a].bbox.maxx < view_tl.x
          /\ BelowThreshold(sectors[a].bbox, view_scale)
          /\ vis_s_[a] = VIS_SMALL

\* the bucket the precedence rule gives
ExpectedBucket(bbox, scale) ==
    IF BelowThreshold(bbox, scale) THEN VIS_SMALL
    ELSE IF bbox.miny > view_br.y THEN VIS_BELOW
    ELSE IF bbox.minx > view_br.x THEN VIS_RIGHT
    ELSE IF bbox.maxy < view_tl.y THEN VIS_ABOVE
    ELSE IF bbox.maxx < view_tl.x THEN VIS_LEFT
    ELSE 0

\* C8: after updateVisibility every entry is the bucket given by the sector's
\* current bounding box, the viewport of this call and the current zoom: for a
\* sector not below the threshold Below, else Right, else Above, else Left, else
\* Visible; nothing is kept from an earlier call.
C8_BucketByPrecedence ==
    AfterUpdateVisibility =>
       /\ Len(vis_s_) = nSectors
       /\ \A a \in 1..nSectors : vis_s_[a] = ExpectedBucket(sectors[a].bbox, view_scale)

\* C8 witness: a sector that is both right of and below the viewport, and large
\* enough, has been classified Below
C8_Witness ==
    /\ AfterUpdateVisibility
    /\ \E a \in 1..nSectors :
          /\ sectors[a].bbox.minx > view_br.x /\ sectors[a].bbox.miny > view_br.y
          /\ ~BelowThreshold(sectors[a].bbox, view_scale)
          /\ vis_s_[a] = VIS_BELOW

-----------------------------------------------------------------------------
(* Properties of the path list *)

AfterUpdateThingPaths == last.op = "updateThingPaths"

Candidate(p) == things[candidates[p]]
NonDragon(p) == ~thingType(Candidate(p).type).dragon
DecodedTarget(p) == TargetId(Candidate(p), thingType(Candidate(p).type).nextArgs, -1)

\* thing p references thing q: q has the next type of p, and the id that the
\* arguments of p encode
References(p, q) ==
    /\ Candidate(q).type = thingType(Candidate(p).type).nextType
    /\ Candidate(q).id = DecodedTarget(p)

\* the entries of the path list between the things p and q
EdgesOfPair(p, q) ==
    {k \in 1..Len(thing_paths_) :
        {thing_paths_[k].from_index, thing_paths_[k].to_index}
            = {candidates[p] - 1, candidates[q] - 1}}

\* C9: for non-dragon candidates A and B, if each references the other the list
\* holds exactly one edge for the pair, of kind NormalBoth; if only A references
\* B it holds exactly one edge for the pair, from A to B and of kind Normal.
C9_OneEdgePerReference ==
    AfterUpdateThingPaths =>
       \A p, q \in 1..Len(candidates) :
          (p # q /\ NonDragon(p) /\ NonDragon(q) /\ References(p, q)) =>
             /\ Cardinality(EdgesOfPair(p, q)) = 1
             /\ \A k \in EdgesOfPair(p, q) :
                   IF References(q, p)
                     THEN thing_paths_[k].type = "NormalBoth"
                     ELSE DecodedTarget(q) # Candidate(p).id =>
                             /\ thing_paths_[k].type = "Normal"
                             /\ thing_paths_[k].from_index = candidates[p] - 1
                             /\ thing_paths_[k].to_index = candidates[q] - 1

\* the reference check of the pair (i, j), j after i
ReferenceCheck(i, j) ==
    /\ Candidate(j).type = thingType(Candidate(i).type).nextType
    /\ \/ Candidate(j).id = DecodedTarget(i)
       \/ Candidate(i).id = DecodedTarget(j)

CheckedPairs ==
    {pr \in (1..Len(candidates)) \X (1..Len(candidates)) :
        pr[1] < pr[2] /\ ReferenceCheck(pr[1], pr[2])}

\* C10: on non-dragon candidates the list gets an entry for a pair (i, j), j
\* after i, only when the reference check holds for the pair: every entry joins
\* the two things of such a pair, and there are as many entries as such pairs
\* (no placeholder, no repeat of an earlier edge).
C10_EntriesOnlyForReferences ==
    (AfterUpdateThingPaths /\ \A p \in 1..Len(candidates) : NonDragon(p)) =>
       /\ \A k \in 1..Len(thing_paths_) :
             \E pr \in CheckedPairs : k \in EdgesOfPair(pr[1], pr[2])
       /\ Len(thing_paths_) = Cardinality(CheckedPairs)

\* the list holds the entry [from -> to] of the given kind
HasEdge(from, to, kind) ==
    \E k \in 1..Len(thing_paths_) :
       thing_paths_[k] = [from_index |-> from, to_index |-> to, type |-> kind]

IsDragon(p) == thingType(Candidate(p).type).dragon

\* C11 as stated: for every dragon-flagged candidate T whose id some thing R of
\* the map has first, the list holds a root edge of kind Dragon from R to T.
C11_RootEdgeFromRoot ==
    AfterUpdateThingPaths =>
       \A p \in 1..Len(candidates) :
          (IsDragon(p) /\ firstWithId(things, Candidate(p).id) # 0) =>
             HasEdge(firstWithId(things, Candidate(p).id) - 1, candidates[p] - 1, "Dragon")

\* C11 (amended): for every dragon-flagged candidate T whose id some thing R of
\* the map has first, the list holds a root edge of kind Dragon whose from-index
\* is T, the dragon-flagged thing itself, and whose to-index is R.
C11_RootEdgeFromDragon ==
    AfterUpdateThingPaths =>
       \A p \in 1..Len(candidates) :
          (IsDragon(p) /\ firstWithId(things, Candidate(p).id) # 0) =>
             HasEdge(candidates[p] - 1, firstWithId(things, Candidate(p).id) - 1, "Dragon")

\* C11 witness: a dragon thing that is not the first thing with its id got its
\* root edge
C11_Witness ==
    /\ AfterUpdateThingPaths
    /\ \E p \in 1..Len(candidates) :
          /\ IsDragon(p)
          /\ firstWithId(things, Candidate(p).id) \notin {0, candidates[p]}
          /\ HasEdge(candidates[p] - 1, firstWithId(things, Candidate(p).id) - 1, "Dragon")

\* the normal-path loop pushes nothing: no candidate after a non-dragon
\* candidate has that candidate's next type
NoNormalEntries ==
    \A i, j \in 1..Len(candidates) :
       (i < j /\ NonDragon(i)) => Candidate(j).type # thingType(Candidate(i).type).nextType

DragonCandidates == {p \in 1..Len(candidates) : IsDragon(p)}

\* the dragon targets of the dragon candidate p, as positions in the map
ClusterOf(p) == Range(putDragonTargets(things, <<firstWithId(things, Candidate(p).id)>>, 1))

IsRootEdge(k) ==
    \E p \in DragonCandidates :
       thing_paths_[k] = RootEdge(candidates[p] - 1, firstWithId(things, Candidate(p).id) - 1)

\* the pairwise entries: what the list holds besides the root edge
PairwiseEntries == {k \in 1..Len(thing_paths_) : ~IsRootEdge(k)}

Linked(x, y) == HasArg(things[x], things[y].id) \/ HasArg(things[y], things[x].id)

\* C12: for the cluster of a dragon thing, every pairwise entry joins two
\* distinct members of which at least one references the other through its
\* argument slots, and no unordered pair of members has more than one entry.
C12_PairwiseOnlyReferenced ==
    (AfterUpdateThingPaths /\ NoNormalEntries /\ Cardinality(DragonCandidates) = 1) =>
       \A p \in DragonCandidates :
          /\ \A k \in PairwiseEntries :
                \E x, y \in ClusterOf(p) :
                   /\ x # y /\ Linked(x, y)
                   /\ {thing_paths_[k].from_index, thing_paths_[k].to_index} = {x - 1, y - 1}
          /\ \A k1, k2 \in PairwiseEntries :
                {thing_paths_[k1].from_index, thing_paths_[k1].to_index}
                   = {thing_paths_[k2].from_index, thing_paths_[k2].to_index} => k1 = k2

\* thing x references thing y through one of its five argument slots
RefersTo(x, y) == HasArg(things[x], things[y].id)

\* C13: for two non-dragon members d and e of a dragon cluster: if d references
\* e and e does not reference d, the list holds the edge from d to e of kind
\* Dragon; if each references the other, the edge of the pair is of kind
\* DragonBoth.
C13_PairwiseFromReferrer ==
    (AfterUpdateThingPaths /\ NoNormalEntries /\ Cardinality(DragonCandidates) = 1) =>
       \A p \in DragonCandidates :
          \A d, e \in ClusterOf(p) :
             (d # e /\ ~thingType(things[d].type).dragon /\ ~thingType(things[e].type).dragon) =>
                /\ (RefersTo(d, e) /\ ~RefersTo(e, d)) => HasEdge(d - 1, e - 1, "Dragon")
                /\ (RefersTo(d, e) /\ RefersTo(e, d)) =>
                      HasEdge(d - 1, e - 1, "DragonBoth") \/ HasEdge(e - 1, d - 1, "DragonBoth")

-----------------------------------------------------------------------------
(* Termination of updateThingPaths *)

\* an upper bound on the loop iterations still to come: lexicographic in the
\* iterations left of the loop over a and of the loops inside it
WalkSide  == nThings + 2
WalkInner == WalkSide * WalkSide + 2
WalkRank ==
    CASE walk.pc = "idle"      -> (nThings + 2) * WalkInner + 1
      [] walk.pc = "outer"     -> (nThings + 2 - walk.a) * WalkInner + WalkInner - 1
      [] walk.pc = "normal"    -> (nThings + 2 - walk.a) * WalkInner + (nThings + 1 - walk.b) + 1
      [] walk.pc = "dragon"    -> (nThings + 2 - walk.a) * WalkInner
                                    + (Len(walk.targets) + 1 - walk.d) * WalkSide
                                    + (Len(walk.targets) + 1 - walk.e) + 1
      [] walk.pc = "timestamp" -> 1
      [] OTHER                 -> 0

NoRepeatedVisit ==
    \A i, j \in 1..Len(walk.visits) : walk.visits[i] = walk.visits[j] => i = j

WalkWithinLists ==
    /\ WalkRank >= 0
    /\ walk.pc = "outer" => ENABLED outerStep
    /\ walk.pc = "normal" => ENABLED normalStep
    /\ walk.pc = "dragon" => ENABLED dragonStep
    /\ NoRepeatedVisit
    /\ \A i \in 1..Len(walk.visits) :
          /\ walk.visits[i][2] \in 1..Len(candidates)
          /\ walk.visits[i][3] < walk.visits[i][4]
          /\ walk.visits[i][1] = "normal" => walk.visits[i][4] \in 1..Len(candidates)
          /\ walk.visits[i][1] = "dragon" => walk.visits[i][4] \in 1..nThings

\* C14: updateThingPaths terminates on every candidate list and every dragon
\* target set, cycles of references included: every step of its loops lowers a
\* non-negative bound on the steps to come and a step is possible until the end
\* is reached, no pair of the candidate list is
\* examined twice for one a, no pair of a dragon target set twice for one dragon
\* thing, and the loops only walk the candidate list and the target set.
C14_PathsTerminate ==
    []WalkWithinLists /\ [][walk' # walk => WalkRank' < WalkRank]_vars

\* C14 witness: updateThingPaths came to its end on candidates that reference
\* each other, after examining a pair of candidates and a pair of dragon targets
C14_Witness ==
    /\ walk.pc = "done"
    /\ \E i, j \in 1..Len(walk.visits) :
          walk.visits[i][1] = "normal" /\ walk.visits[j][1] = "dragon"
    /\ \E x, y \in 1..nThings : x # y /\ RefersTo(x, y) /\ RefersTo(y, x)

-----------------------------------------------------------------------------
(* The path cache *)

PathedStep == last'.op = "renderPathedThings" /\ clock' = clock /\ last'.flag /\ candidates' # <<>>

\* C15: a renderPathedThings call with action lines enabled and a non-empty list
\* of monitored things rebuilds the path list if and only if the list is empty or
\* a monitored thing's modifiedTime exceeds the path-cache timestamp; a rebuild
\* replaces the whole list by the paths of the monitored things and sets the
\* timestamp; without a rebuild the list is unchanged.
C15_PathsRebuiltWhenStale ==
    [][ PathedStep =>
          /\ "paths" \in last'.rebuilt <=>
                \/ thing_paths_ = <<>>
                \/ \E p \in Range(candidates') : things[p].mt > thing_paths_updated_
          /\ "paths" \in last'.rebuilt =>
                /\ thing_paths_updated_' = clock
                /\ \E uninit \in UninitPaths(nThings) :
                      thing_paths_' = PathsLoop(candidates', things, 1, uninit, <<>>)
          /\ "paths" \notin last'.rebuilt => thing_paths_' = thing_paths_ ]_vars

\* C15 witness: a monitored thing was retargeted after the paths were built, and
\* renderPathedThings replaced a non-empty list by a different one
C15_Witness ==
    /\ last.op = "renderPathedThings" /\ "paths" \in last.rebuilt
    /\ thing_paths_ # <<>> /\ thing_paths_updated_ > 1
    /\ \E p \in Range(candidates) : things[p].mt = thing_paths_updated_

-----------------------------------------------------------------------------
(* The moving overlays *)

\* the line entries the last overlay call drew
DrawnLines == CHOOSE d \in {x[2] : x \in {y \in last.draws : y[1] = "lines"}} : TRUE

\* the vertices the item list of the last call selects
MovingSelection == {Resolve(i, nVertices) : i \in Range(last.items)} \ {0}

\* C16: renderMovingVertices draws a line of the map exactly when one of its
\* two vertices is in the moving selection, once, and draws each end at its
\* position plus the offset when its vertex is selected, at its position
\* otherwise
C16_MovingVertexLines ==
    last.op = "renderMovingVertices" =>
       \A a \in 1..nLines :
          LET ks == {k \in 1..Len(DrawnLines) : DrawnLines[k].line = a}
          IN  /\ (ks # {}) <=> (lines[a].v1 \in MovingSelection \/ lines[a].v2 \in MovingSelection)
              /\ Cardinality(ks) <= 1
              /\ \A k \in ks :
                    /\ DrawnLines[k].from =
                          IF lines[a].v1 \in MovingSelection
                            THEN VecAdd(vertices[lines[a].v1].pos, last.move_vec)
                            ELSE vertices[lines[a].v1].pos
                    /\ DrawnLines[k].to =
                          IF lines[a].v2 \in MovingSelection
                            THEN VecAdd(vertices[lines[a].v2].pos, last.move_vec)
                            ELSE vertices[lines[a].v2].pos

\* lines L1 (A, B) and L2 (B, C) with only B moving: the call drew L1 from A to
\* B + offset and L2 from B + offset to C
C16_Witness ==
    /\ last.op = "renderMovingVertices"
    /\ nLines = 2
    /\ lines[1].v1 = 1 /\ lines[1].v2 = 2 /\ lines[2].v1 = 2 /\ lines[2].v2 = 3
    /\ MovingSelection = {2}
    /\ last.move_vec = <<1, 1>>
    /\ [k \in 1..Len(DrawnLines) |-> <<DrawnLines[k].from, DrawnLines[k].to>>]
          = << <<vertices[1].pos, VecAdd(vertices[2].pos, <<1, 1>>)>>,
               <<VecAdd(vertices[2].pos, <<1, 1>>), vertices[3].pos>> >>

\* the edit overlay calls
OverlayCalls ==
    {"renderMovingVertices", "renderMovingLines", "renderMovingSectors", "renderMovingThings",
     "renderPasteThings", "renderObjectEditGroup"}

\* C17: an edit overlay call changes neither the map nor a persisted cache:
\* the vertex, line, thing and flat buffers with their counts and timestamps,
\* the visibility table and the path list stay as they were
C17_OverlaysLeaveCaches ==
    [][last'.op \in OverlayCalls =>
          UNCHANGED <<mapVars, vertVars, lineVars, thingVars, flatVars, vis_s_,
                      thing_paths_, thing_paths_updated_>>]_vars

\* over a map whose vertices, lines and things have been drawn, a moving-lines
\* call has drawn its own lines from the temporary buffer
C17_Witness ==
    /\ last.op = "renderMovingLines"
    /\ DrawnLines # <<>>
    /\ temp_lines_buffer_.uploaded = DrawnLines
    /\ vertices_buffer_.present /\ n_vertices_ = nVertices
    /\ lines_buffer_.present /\ lines_buffer_.uploaded # <<>>
    /\ thing_buffers_ # <<>>

\* the overlay calls that draw lines from the temporary lines buffer
LineOverlayCalls == {"renderMovingVertices", "renderMovingLines", "renderObjectEditGroup"}

\* the vertices that move in the last call: the selected vertices, or the
\* vertices of the selected lines
MovingVertices ==
    IF last.op = "renderMovingVertices" THEN MovingSelection
    ELSE LET sel == {Resolve(i, nLines) : i \in Range(last.items)} \ {0}
         IN  {lines[a].v1 : a \in sel} \cup {lines[a].v2 : a \in sel}

\* the line entries that come from the last call's own map, selection and offset
OwnLines ==
    IF last.op = "renderObjectEditGroup"
      THEN {[line |-> l.line, from |-> l.from, to |-> l.to] : l \in Range(last.items.lines)}
      ELSE {[line |-> a,
             from |-> IF lines[a].v1 \in MovingVertices
                        THEN VecAdd(vertices[lines[a].v1].pos, last.move_vec)
                        ELSE vertices[lines[a].v1].pos,
             to   |-> IF lines[a].v2 \in MovingVertices
                        THEN VecAdd(vertices[lines[a].v2].pos, last.move_vec)
                        ELSE vertices[lines[a].v2].pos] :
              a \in {b \in 1..nLines : lines[b].v1 \in MovingVertices \/ lines[b].v2 \in MovingVertices}}

-----------------------------------------------------------------------------
(* Hilights and selections of features that are gone *)

HilightCalls ==
    {"renderVertexHilight", "renderLineHilight", "renderThingHilight", "renderFlatHilight"}

\* the number of features of the kind the call [op] hilights
HilightCount(op) ==
    CASE op = "renderVertexHilight" -> nVertices
      [] op = "renderLineHilight"   -> nLines
      [] op = "renderThingHilight"  -> nThings
      [] OTHER                      -> nSectors

\* C19: a hilight call given an index that is no feature of the map draws
\* nothing, faults nowhere and changes neither the renderer (map, caches,
\* temporary buffers) nor the draw context
C19_NoFeatureNoOp ==
    [][(last'.op \in HilightCalls /\ Resolve(last'.items[1], HilightCount(last'.op)) = 0) =>
          /\ last'.draws = {}
          /\ last'.faults = {}
          /\ UNCHANGED <<mapVars, view_scale, fit, cacheVars, candidates, overlayVars, dc>>]_vars

\* a line hilight of an index past the last line, on a context an earlier
\* hilight has coloured
C19_Witness ==
    /\ last.op = "renderLineHilight"
    /\ last.items = <<nLines>>
    /\ last.draws = {}
    /\ dc.colour[1] = "map_hilight"
    /\ flats_buffer_.present

-----------------------------------------------------------------------------
(* Selections holding items that are gone *)

SelectionCalls ==
    {"renderVertexSelection", "renderLineSelection", "renderThingSelection",
     "renderFlatSelection"}

\* the number of features of the kind the call [op] draws the selection of
SelectionCount(op) ==
    CASE op = "renderVertexSelection" -> nVertices
      [] op = "renderLineSelection"   -> nLines
      [] op = "renderThingSelection"  -> nThings
      [] OTHER                        -> nSectors

\* the selection of the last call holds an item that is no feature of the map
StaleItem ==
    /\ last.op \in SelectionCalls
    /\ \E k \in 1..Len(last.items) : Resolve(last.items[k], SelectionCount(last.op)) = 0

\* C20: a selection call whose selection holds an item that resolves to no
\* feature of the map passes that item over: no fault occurs, and the call
\* draws the items that do resolve (for the sectors: their lines)
C20_StaleItemsSkipped ==
    StaleItem =>
       /\ last.faults = {}
       /\ last.op = "renderVertexSelection" =>
             <<"points", [k \in 1..Len(Resolved(last.items, nVertices)) |->
                            vertices[Resolved(last.items, nVertices)[k]].pos]>> \in last.draws
       /\ last.op = "renderFlatSelection" =>
             \E d \in last.draws :
                /\ d[1] = "overlays"
                /\ Range(d[2]) = UNION {Range(SectorLines(s)) :
                                           s \in {a \in Range(Resolved(last.items, nSectors)) :
                                                     vis_s_[a] <= 0 \/ vis_s_[a] = VIS_SMALL}}

-----------------------------------------------------------------------------
(* The fade of the animated overlays *)

TaggedCalls ==
    {"renderTaggedLines", "renderTaggingLines", "renderTaggedThings", "renderTaggingThings",
     "renderTaggedFlats"}

\* the last call is a hilight of a feature of the map, a selection call on a
\* selection that is not empty, or a tagged or tagging call
FadeUsed ==
    \/ last.op \in HilightCalls /\ last.draws # {}
    \/ last.op \in SelectionCalls /\ last.items # <<>>
    \/ last.op \in TaggedCalls

\* the colour of the category of the call [op]
CategoryColour(op) ==
    IF op \in HilightCalls THEN "map_hilight"
    ELSE IF op \in SelectionCalls THEN "map_selection"
    ELSE "map_tagged"

\* what the flag of the category asks for: the fade the caller gave when the
\* category is animated, 1.0 when it is not
FadeAsked == IF last.flag THEN last.view[1] ELSE 100

\* C21: an overlay call of a category (hilight, selection, tagged or tagging)
\* uses the fade 1.0 for its colour and its sizes when the animate flag of the
\* category is off, whatever fade the caller gave, and the fade of the caller
\* unchanged when the flag is on
C21_FadeFollowsFlag ==
    FadeUsed =>
       CASE last.op = "renderVertexHilight" ->
               <<"style", <<"map_hilight", FadeAsked>>, 180 + (60 * FadeAsked) \div 100>>
                  \in last.draws
         [] last.op = "renderThingHilight" ->
               IF \E d \in last.draws : d[1] = "rect"
                 THEN dc.colour = <<"map_hilight", FadeAsked \div 2>>
                 ELSE /\ dc.colour = <<"map_hilight", FadeAsked>>
                      /\ <<"radius_extra", 4 * FadeAsked>> \in last.draws
         [] last.op \in {"renderLineHilight", "renderFlatHilight"} ->
               /\ dc.colour = <<"map_hilight", FadeAsked>>
               /\ dc.line_thickness[2] = FadeAsked
         [] OTHER -> dc.colour = <<CategoryColour(last.op), FadeAsked>>

\* a tagged call on a thing, given the fade 0.5 while the tagged overlays are
\* not animated
C21_Witness ==
    /\ last.op = "renderTaggedThings"
    /\ last.items = <<1>>
    /\ ~last.flag /\ last.view = <<50>>
    /\ dc.colour = <<"map_tagged", 100>>

-----------------------------------------------------------------------------
(* The radius of the vertices *)

AfterVertexRadius == last.op = "vertexRadius"
QEq(a, b) == a[1] * b[2] = b[1] * a[2]
QMax(a, b) == IF QLess(a, b) THEN b ELSE a
zoom == <<view_scale.num, view_scale.den>>

\* C22: vertexRadius(m) is vertex_size / zoom, times zoom only when zoom is
\* below 1.0, raised to at least 4.0 / zoom, then times 0.5 and times m: with
\* zoom 2.0, vertex_size 7 and m = 1 it is 1.75, and it is never less than
\* (4.0 / zoom) * 0.5 * m
C22_RadiusSteps ==
    AfterVertexRadius =>
       \A r \in last.draws :
          LET vertex_size == last.view[1]
              m           == last.view[2]
              floor       == QDiv(<<4, 1>>, zoom)
          IN  /\ ~QLess(r, QMul(QMul(floor, <<1, 2>>), m))
              /\ QLess(zoom, <<1, 1>>) =>
                    QEq(r, QMul(QMul(QMax(<<vertex_size, 1>>, floor), <<1, 2>>), m))
              /\ ~QLess(zoom, <<1, 1>>) =>
                    QEq(r, QMul(QMul(QMax(QDiv(<<vertex_size, 1>>, zoom), floor), <<1, 2>>), m))
              /\ (QEq(zoom, <<2, 1>>) /\ vertex_size = 7 /\ m = <<1, 1>>) => QEq(r, <<175, 100>>)

\* the vertex size 7 at zoom 2.0, multiplier 1
C22_Witness ==
    /\ AfterVertexRadius
    /\ QEq(zoom, <<2, 1>>) /\ last.view = <<7, <<1, 1>>>>
    /\ \E r \in last.draws : QEq(r, <<7, 4>>)

\* the vertex size 7 at zoom 0.5: the shrink leaves 7, the minimum raises it
\* to 8
C22_WitnessClamped ==
    /\ AfterVertexRadius
    /\ QEq(zoom, <<1, 2>>) /\ last.view = <<7, <<1, 1>>>>
    /\ \E r \in last.draws : QEq(r, <<4, 1>>)

-----------------------------------------------------------------------------
(* The sub-buffers of the things *)

ThingsRebuilt == last.op = "renderThings" /\ "things" \in last.rebuilt

\* the types of the things of the map
LiveTypes == {things[i].type : i \in 1..nThings}

\* C23: after a rebuild of the thing cache there is one sub-buffer for every
\* type of thing of the map and no other, and the sub-buffer of a type holds
\* one entry for every thing of that type: every thing is in the sub-buffer
\* of its type and in no other
C23_OneBufferPerType ==
    ThingsRebuilt =>
       /\ Len(thing_buffers_) = Cardinality(LiveTypes)
       /\ {thing_buffers_[k].type : k \in 1..Len(thing_buffers_)} = LiveTypes
       /\ \A k \in 1..Len(thing_buffers_) :
             /\ thing_buffers_[k].staged = <<>>
             /\ Len(thing_buffers_[k].uploaded)
                   = Cardinality({i \in 1..nThings : things[i].type = thing_buffers_[k].type})
             /\ \A e \in 1..Len(thing_buffers_[k].uploaded) :
                   thing_buffers_[k].uploaded[e] = ThingEntry([type |-> thing_buffers_[k].type])

\* a rebuild over three things of two types, after the clock has advanced
C23_Witness ==
    /\ ThingsRebuilt
    /\ nThings = 3 /\ Cardinality(LiveTypes) = 2
    /\ clock > 1
    /\ Len(thing_buffers_) = 2

-----------------------------------------------------------------------------
(* Full rebuilds *)

-----------------------------------------------------------------------------
(* What the visibility table lets through *)

OutOfView == {VIS_LEFT, VIS_RIGHT, VIS_ABOVE, VIS_BELOW}

\* the lines a flat overlay call drew
OverlayLinesDrawn == UNION {Range(d[2]) : d \in {e \in last.draws : e[1] = "overlays"}}

\* C25: renderFlats draws the polygon of a sector only when the sector's
\* entry of the visibility table is Visible; renderFlatOverlays passes over
\* exactly the sectors whose entry is Left, Right, Above or Below, and draws
\* those whose entry is TooSmall
C25_VisibilityFilters ==
    /\ last.op = "renderFlats" =>
          \A d \in last.draws : d[1] = "flat" => vis_s_[d[2]] = 0
    /\ (last.op = "renderTaggedFlats" /\ last.faults = {}) =>
          OverlayLinesDrawn
             = UNION {Range(SectorLines(sc)) :
                        sc \in {a \in Range(last.items) : vis_s_[a] \notin OutOfView}}

\* an overlay call on both sectors, the first too small to show, the second
\* below the view: the lines of the first are drawn, those of the second not
C25_Witness ==
    /\ last.op = "renderTaggedFlats" /\ last.items = <<1, 2>>
    /\ vis_s_ = <<VIS_SMALL, VIS_BELOW>>
    /\ OverlayLinesDrawn = Range(SectorLines(1))
    /\ OverlayLinesDrawn # {}

\* renderFlats with the first sector too small and the second in view
C25_WitnessFlats ==
    /\ last.op = "renderFlats"
    /\ vis_s_ = <<VIS_SMALL, 0>>
    /\ last.draws = {<<"flat", 2>>}

-----------------------------------------------------------------------------
(* Mutations stamped with the clock value of the last rebuild *)

VertexMutations == {"addVertex", "removeVertex", "moveVertex", "modifyVertex"}
LineMutations   == {"addLine", "removeLine", "modifyLine", "moveVertex"}
ThingMutations  == {"addThing", "removeThing", "modifyThing", "setThingType"}

\* a call of the render operation [name] that issued its draw right after a
\* mutation of the features it draws
DrawsAfter(name, mutations) ==
    /\ RenderStep(name)
    /\ last'.draws # {}
    /\ last.op \in mutations

\* C26: whenever renderVertices, renderLines or renderThings issues its draw, no
\* mutation made after the last rebuild is missing from the drawn data: a call
\* that directly follows a mutation of the features it draws (whatever the clock
\* value the mutation is stamped with, and whether or not it changed the count
\* or the map-wide counter) rebuilds its cache before it draws.
C26_NoMutationMissed ==
    [][ /\ DrawsAfter("renderVertices", VertexMutations) => "vertices" \in last'.rebuilt
        /\ DrawsAfter("renderLines", LineMutations)      => "lines" \in last'.rebuilt
        /\ DrawsAfter("renderThings", ThingMutations)    => "things" \in last'.rebuilt ]_vars

-----------------------------------------------------------------------------
(* Reads of the visibility table *)

FlatCalls == {"renderFlats", "renderTaggedFlats"}

\* C27: for any interleaving of sector additions and removals, updateVisibility
\* calls and flat render calls, renderFlats and renderFlatOverlays read the
\* visibility table only at indices below its current length.
C27_VisibilityReadsInBounds ==
    last.op \in FlatCalls => "vis_s_ overrun" \notin last.faults

-----------------------------------------------------------------------------
(* Overlay calls before the buffers are built *)

BufferDrawingOverlays == {"renderVertexHilight", "renderFlatHilight", "renderTaggedFlats"}

BufferFaults ==
    {"vertices_buffer_ is null", "vertices_buffer_ has no such entry", "flats_buffer_ is null"}

\* C28: in every reachable state, an overlay call that draws from a cached
\* buffer finds that buffer built: renderVertexHilight past its vertex lookup
\* finds the vertices buffer and the hilighted entry, renderFlatHilight with
\* fill and renderFlatOverlays find the flats buffer - also when no
\* renderVertices or renderFlats call has built the buffer before.
C28_OverlayFindsBufferBuilt ==
    last.op \in BufferDrawingOverlays => last.faults \cap BufferFaults = {}

-----------------------------------------------------------------------------
(* What forceUpdate leaves behind *)

\* a forceUpdate call: each of the three caches rebuilt once, from the live
\* features and stamped with the clock, the two lists empty
ForcedOnce ==
    RenderStep("forceUpdate") =>
       /\ last'.view = <<1, 1, 1>>
       /\ last'.rebuilt = {"lines", "vertices", "things"}
       /\ lines_buffer_'.present
       /\ BufferDraw(lines_buffer_') = LineEntries(lines, lines_dirs_)
       /\ lines_dirs_' = lines_dirs_ /\ n_lines_' = nLines /\ lines_updated_' = clock
       /\ vertices_buffer_'.present
       /\ BufferDraw(vertices_buffer_') = VertexEntries(vertices)
       /\ n_vertices_' = nVertices /\ vertices_updated_' = clock
       /\ thing_buffers_' = updateThingBuffers(things, clock).bufs
       /\ things_updated_' = clock
       /\ thing_paths_' = <<>>
       /\ tex_flats_' = <<>>

\* the path list stays empty until a renderPathedThings call rebuilds it
EmptyUntilRebuilt ==
    (thing_paths_ = <<>> /\ thing_paths_' # <<>>) =>
       (last'.op = "renderPathedThings" /\ "paths" \in last'.rebuilt)

\* a renderPathedThings call that finds the list empty and is not skipped
\* (action lines wanted, things handed over) rebuilds the paths
EmptyListRebuilt ==
    (RenderStep("renderPathedThings") /\ thing_paths_ = <<>>
       /\ last'.flag /\ candidates' # <<>>)
       => "paths" \in last'.rebuilt

-----------------------------------------------------------------------------
(* Termination of View::fitTo *)

\* C30: View::fitTo terminates for every bounding box, every view size and
\* every scale_inc greater than 1: a call that has entered its zoom-out loop
\* reaches a scale at which the bounding box lies inside the visible region.
C30_FitToTerminates == (fit.pc = "loop") ~> (fit.pc = "fitted")

====
